---------------------------- MODULE Spec2Model ----------------------------
(***************************************************************************)
(* Model of the Redis-backed image queue (image_queue.py,                  *)
(* GlobalImageQueue) and of the batch scheduler that drives it             *)
(* (queue_processor.py, BatchProcessor).                                   *)
(*                                                                         *)
(* The store is the set of Redis keys the queue owns: the two sorted sets  *)
(* pending and retry (a sequence in ascending score order: every score is  *)
(* time.time() at the moment of the zadd, so a new member is appended),    *)
(* the three sets processing, completed and failed, the task hashes, the   *)
(* job -> tasks sets, the job status hashes and the dependency hashes.     *)
(* Ages and staleness thresholds are counted in half-hours, the finest of  *)
(* the staleness thresholds of the scheduler's cleanup; the clock advances *)
(* in steps of one hour.                                                   *)
(*                                                                         *)
(* The scheduler carries its pause and its circuit breaker as two          *)
(* deadlines, each either ahead or met, and the counter of consecutive     *)
(* all-keys-exhausted outcomes.  The credential pool (api_key_manager.py,  *)
(* ApiKeyManager) is the ordered key list, the index selected last and,    *)
(* per key and model type, the two usage counters and the free-tier flag.  *)
(***************************************************************************)
EXTENDS Integers, Sequences, FiniteSets, TLC

VARIABLES
    pending,      \* image_queue:pending, ascending by score
    retry,        \* image_queue:retry, ascending by score
    processing,   \* image_queue:processing
    completed,    \* image_queue:completed
    failed,       \* image_queue:failed
    taskData,     \* image_queue:task:<id> hashes (NoTask: the key does not exist)
    age,          \* half-hours since created_at of the task hash
    jobTasks,     \* image_queue:job:<job> sets
    jobStatus,    \* image_queue:job_status:<job> hashes (NoStatus: no key)
    dep,          \* image_queue:dep:<group> hashes (NoDep: no key)
    cancelled,    \* history: the jobs cancel_job returned for since their last submit
    pc,           \* per scheduler process: where its _run_loop stands
    tasks,        \* per scheduler process: the list get_batch returned
    inflight,     \* per scheduler process: tasks of the batch without an outcome yet
    sinceCleanup, \* per scheduler process: batches_processed - _last_cleanup
    gb,           \* per scheduler process: the locals of a running get_batch
    futures,      \* per task of the batch: the future of its _generate_image call
    pauseUntil,   \* per process: is BatchProcessor._pause_until in the future
    circuitOpenUntil, \* per process: is _circuit_open_until in the future
    consecutiveAllKeyFailures, \* per process: _consecutive_all_key_failures
    streak,       \* history: consecutive batches with an all-keys-exhausted outcome
    keys,         \* ApiKeyManager.keys, the configured keys in order
    lastKeyIndex, \* ApiKeyManager._last_key_index
    rpm,          \* gemini:key:<id>:<model>:rpm counters (0: no key)
    daily,        \* gemini:key:<id>:<model>:daily counters (0: no key)
    freeTier,     \* gemini:key:<id>:<model>:free_tier is "true"
    ret,          \* the outcome of the latest get_available_key call
    picks,        \* history: how often each key was returned
    dailyReported, \* history: keys whose daily limit the API reported today
    rpmTtl,       \* TTL of the rpm counters, in half-minutes (0: no key)
    cooldown,     \* history: half-minutes left of the 60 s since a timed record_failure
    held          \* per key: worker threads between _get_client and _record_api_usage

storeVars == <<pending, retry, processing, completed, failed, taskData, age,
               jobTasks, jobStatus, dep, cancelled>>
breakerVars == <<pauseUntil, circuitOpenUntil, consecutiveAllKeyFailures, streak>>
schedVars == <<pc, tasks, inflight, sinceCleanup, gb, futures, pauseUntil,
               circuitOpenUntil, consecutiveAllKeyFailures, streak>>
keyVars == <<keys, lastKeyIndex, rpm, daily, freeTier, ret, picks,
             dailyReported, rpmTtl, cooldown, held>>
vars == <<pending, retry, processing, completed, failed, taskData, age,
          jobTasks, jobStatus, dep, cancelled,
          pc, tasks, inflight, sinceCleanup, gb,
          futures,
          pauseUntil, circuitOpenUntil, consecutiveAllKeyFailures, streak,
          keys, lastKeyIndex, rpm, daily, freeTier, ret, picks, dailyReported,
          rpmTtl, cooldown, held>>

---------------------------------------------------------------------------
(* Program constants (config.py) *)

MAX_RETRIES == 3
BATCH_SIZE == 18
CLEANUP_INTERVAL == 10
\* The staleness thresholds in half-hours: 2.0 h, 1.0 h and 0.5 h.
STALE_PENDING_HOURS == 4
STALE_RETRY_HOURS == 2
STALE_PROCESSING_HOURS == 1
CIRCUIT_BREAKER_THRESHOLD == 3
PAUSE_ON_RATE_LIMIT == TRUE
\* redis.expire(rpm_key, 60), in half-minutes
RPM_TTL == 2
\* ThreadPoolExecutor(max_workers=MAX_WORKERS): the worker threads of a batch
MAX_WORKERS == 2
\* The per-key limits of the two model types.  They are read from the
\* environment (GEMINI_IMAGE_RPM, ...); the model runs a small configuration.
TEXT_RPM == 1
TEXT_DAILY == 1
IMAGE_RPM == 1
IMAGE_DAILY == 2

(* Bounds of the model *)

\* Ages are counted up to AgeCap half-hours; AgeCap exceeds every threshold.
AgeCap == 5
\* get_batch is called with a limit of 1..MaxSmallLimit or with BATCH_SIZE.
MaxSmallLimit == 1
\* Concurrent callers may push a usage counter past its limit, by at most MaxOver.
MaxOver == 1
\* The consecutive all-keys-exhausted outcomes counted without a success.
MaxFailures == 4
\* The selections counted in a round-robin run.
MaxPicks == 7

---------------------------------------------------------------------------
(* The tasks the submission layer may enqueue.  Task ids are unique; the   *)
(* attributes below are the fields of ImageTask that never change after    *)
(* submit.  P and P2 are producers (persona_first) of group "g", C is a    *)
(* consumer (persona_dependent) of "g", N has no dependency.               *)

TaskIds == {"P", "P2", "C", "N"}
Jobs == {"J1", "J2"}
Groups == {"g"}
Results == {"r1", "r2"}
Errors == {"x"}

job_id(t) == IF t = "N" THEN "J2" ELSE "J1"
dependency_type(t) ==
    CASE t \in {"P", "P2"} -> "persona_first"
      [] t = "C" -> "persona_dependent"
      [] OTHER -> "none"
dependency_group(t) == IF t = "N" THEN "" ELSE "g"

NoTask == [none |-> TRUE]
NoStatus == [none |-> TRUE]
NoDep == [none |-> TRUE]

\* ImageTask as constructed by the submission layer: the fields the queue and
\* the scheduler read back.  output_path, the timestamps started_at and
\* completed_at and the result key image_queue:results:<id> are written and
\* never read by the operations below; they are not part of the state.
NewTask ==
    [retry_count |-> 0, last_error |-> "", persona_reference_path |-> ""]

Min(a, b) == IF a < b THEN a ELSE b
Range(s) == {s[i] : i \in 1..Len(s)}

---------------------------------------------------------------------------
(* Redis primitives *)

\* ZREM key member
ZRem(q, t) == SelectSeq(q, LAMBDA x : x # t)
\* ZADD key {member: time.time()}: the member gets the highest score so far.
ZAdd(q, t) == Append(ZRem(q, t), t)
\* ZRANGE key 0 stop (stop inclusive)
ZRange(q, stop) == SubSeq(q, 1, Min(stop + 1, Len(q)))

\* _get_task: None when the hash is gone
HasTask(td, t) == td[t] # NoTask

---------------------------------------------------------------------------
(* _update_job_status: the counts of one job, recomputed from membership *)

JobCounts(j, jt, pnd, rty, prc, cmp, fld) ==
    LET ids == jt[j]
        c == ids \cap cmp
        f == (ids \ c) \cap fld
        p == (ids \ (c \cup f)) \cap prc
        r == (ids \ (c \cup f \cup p)) \cap Range(rty)
        q == (ids \ (c \cup f \cup p \cup r)) \cap Range(pnd)
    IN [total |-> Cardinality(ids), pending |-> Cardinality(q),
        processing |-> Cardinality(p), completed |-> Cardinality(c),
        failed |-> Cardinality(f), retry |-> Cardinality(r)]

\* get_job_status: the stored hash read back (all zero when the key is gone),
\* with is_complete computed from the stored counts.
GetJobStatus(j) ==
    LET s == IF jobStatus[j] = NoStatus
             THEN [total |-> 0, pending |-> 0, processing |-> 0,
                   completed |-> 0, failed |-> 0, retry |-> 0]
             ELSE jobStatus[j]
    IN [total |-> s.total, pending |-> s.pending, processing |-> s.processing,
        completed |-> s.completed, failed |-> s.failed, retry |-> s.retry,
        is_complete |-> (s.pending = 0 /\ s.processing = 0 /\ s.retry = 0)]

---------------------------------------------------------------------------
(* submit *)

Submit(t) ==
    /\ taskData' = [taskData EXCEPT ![t] = NewTask]
    /\ age' = [age EXCEPT ![t] = 0]
    /\ pending' = ZAdd(pending, t)
    /\ jobTasks' = [jobTasks EXCEPT ![job_id(t)] = @ \cup {t}]
    /\ cancelled' = cancelled \ {job_id(t)}
    /\ jobStatus' = [jobStatus EXCEPT ![job_id(t)] =
           JobCounts(job_id(t), jobTasks', pending', retry, processing,
                     completed, failed)]
    /\ dep' = IF dependency_type(t) = "persona_first"
              THEN [dep EXCEPT ![dependency_group(t)] =
                       [first_task_id |-> t, completed |-> FALSE,
                        result_path |-> ""]]
              ELSE dep
    /\ UNCHANGED <<retry, processing, completed, failed>>

---------------------------------------------------------------------------
(* get_batch and _can_process_task *)

\* Mutant: the dependency hash is looked up, its completed field is not read.
CanProcessTaskIgnoresCompleted(t, d) ==
    dependency_type(t) = "persona_dependent" => d[dependency_group(t)] # NoDep

\* _can_process_task: a consumer passes only with a dependency hash whose
\* completed field is 'true'.
CanProcessTask(t, d) ==
    dependency_type(t) = "persona_dependent" =>
        (d[dependency_group(t)] # NoDep /\ d[dependency_group(t)].completed)

\* Mutant: the producer's result is not copied to the consumer.
WithPersonaUnset(task, t, d) == task

\* The task object after _can_process_task: a consumer gets the producer's
\* result_path as its persona_reference_path.
WithPersona(task, t, d) ==
    IF dependency_type(t) = "persona_dependent"
    THEN [task EXCEPT !.persona_reference_path = d[dependency_group(t)].result_path]
    ELSE task

\* One iteration of either loop of get_batch on task id `id` read from the
\* sorted set named q ("retry" or "pending").  st holds the list built so far
\* and the keys the loop writes.
GBStep(st, id, limit, q, d) ==
    IF Len(st.tasks) >= limit THEN st
    ELSE IF ~HasTask(st.taskData, id) THEN st
    ELSE IF ~CanProcessTask(id, d) THEN st
    ELSE LET task == WithPersona(st.taskData[id], id, d)
         IN [st EXCEPT
               !.tasks = Append(@, [task_id |-> id,
                   persona_reference_path |-> task.persona_reference_path]),
               ![q] = ZRem(@, id),
               !.processing = @ \cup {id},
               !.taskData = [@ EXCEPT ![id] = task]]

RECURSIVE GBScan(_, _, _, _, _)
GBScan(st, ids, limit, q, d) ==
    IF ids = <<>> THEN st
    ELSE GBScan(GBStep(st, Head(ids), limit, q, d), Tail(ids), limit, q, d)

\* The ids the retry loop reads: zrange(RETRY_KEY, 0, limit - 1)
RetryWindow(rty, limit) == ZRange(rty, limit - 1)
\* The ids the pending loop reads: zrange(PENDING_KEY, 0, remaining * 2)
PendingWindow(pnd, remaining) == ZRange(pnd, remaining * 2)

\* get_batch(limit) run without interruption: the state of the keys it writes
\* and the list it returns.
GetBatchResult(limit) ==
    LET st0 == [tasks |-> <<>>, pending |-> pending, retry |-> retry,
                processing |-> processing, taskData |-> taskData]
        st1 == GBScan(st0, RetryWindow(retry, limit), limit, "retry", dep)
        remaining == limit - Len(st1.tasks)
    IN IF remaining > 0
       THEN GBScan(st1, PendingWindow(st1.pending, remaining), limit, "pending", dep)
       ELSE st1

TaskIdsOf(ts) == {ts[i].task_id : i \in 1..Len(ts)}

---------------------------------------------------------------------------
(* mark_complete *)

MarkComplete(t, result_path) ==
    IF ~HasTask(taskData, t)
    THEN UNCHANGED storeVars
    ELSE
    /\ processing' = processing \ {t}
    /\ completed' = completed \cup {t}
    /\ dep' = IF dependency_type(t) = "persona_first"
              THEN [dep EXCEPT ![dependency_group(t)] =
                       [first_task_id |-> IF @ = NoDep THEN "" ELSE @.first_task_id,
                        completed |-> TRUE, result_path |-> result_path]]
              ELSE dep
    /\ jobStatus' = [jobStatus EXCEPT ![job_id(t)] =
           JobCounts(job_id(t), jobTasks, pending, retry, processing',
                     completed', failed)]
    /\ UNCHANGED <<pending, retry, failed, taskData, age, jobTasks, cancelled>>

---------------------------------------------------------------------------
(* mark_failed and _fail_dependent_tasks *)

\* Mutant: the cascade looks for the producer's type, not the consumers'.
DependentsOfProducerType(q, td, group) ==
    {t \in Range(q) : /\ HasTask(td, t)
                      /\ dependency_group(t) = group
                      /\ dependency_type(t) = "persona_first"}

\* Mutant: the cascade takes every task of the group, whatever its type.
DependentsOfAnyType(q, td, group) ==
    {t \in Range(q) : HasTask(td, t) /\ dependency_group(t) = group}

\* The tasks _fail_dependent_tasks moves out of the sorted set q: those with a
\* task hash that names the group and the type persona_dependent.
Dependents(q, td, group) ==
    {t \in Range(q) : /\ HasTask(td, t)
                      /\ dependency_group(t) = group
                      /\ dependency_type(t) = "persona_dependent"}

\* The job whose status _fail_dependent_tasks refreshes: that of the first id
\* of pending_ids + retry_ids with a task hash of the group.
CascadeJobs(pnd, rty, td, group) ==
    LET hit == SelectSeq(pnd \o rty,
                   LAMBDA t : HasTask(td, t) /\ dependency_group(t) = group)
    IN IF hit = <<>> THEN {} ELSE {job_id(Head(hit))}

DependencyError(t, error) == "Dependency " \o t \o " failed: " \o error

\* Mutant: a rate-limited failure counts against the retry limit too.
NextRetryCountAlways(count, is_rate_limit, permanent) ==
    IF ~permanent THEN count + 1 ELSE count

\* retry_count after a failure: incremented unless rate-limited or permanent
NextRetryCount(count, is_rate_limit, permanent) ==
    IF ~is_rate_limit /\ ~permanent THEN count + 1 ELSE count

\* Mutant: one retry too many (> for >=).
IsPermanentFailureOffByOne(count, permanent) ==
    permanent \/ count > MAX_RETRIES

\* The test that sends a failed task to failed instead of retry
IsPermanentFailure(count, permanent) ==
    permanent \/ count >= MAX_RETRIES

MarkFailed(t, error, is_rate_limit, permanent) ==
    IF ~HasTask(taskData, t)
    THEN UNCHANGED storeVars
    ELSE
    LET count == NextRetryCount(taskData[t].retry_count, is_rate_limit, permanent)
        saved == [taskData EXCEPT ![t].retry_count = count,
                                  ![t].last_error = error]
        isFinal == IsPermanentFailure(count, permanent)
        cascade == isFinal /\ dependency_type(t) = "persona_first"
        group == dependency_group(t)
        fromPending == IF cascade THEN Dependents(pending, saved, group) ELSE {}
        fromRetry == IF cascade THEN Dependents(retry, saved, group) ELSE {}
        moved == fromPending \cup fromRetry
        jobs == {job_id(t)} \cup
                (IF moved # {} THEN CascadeJobs(pending, retry, saved, group)
                 ELSE {})
    IN
    /\ processing' = processing \ {t}
    /\ taskData' = [u \in TaskIds |->
           IF u \in moved
           THEN [saved[u] EXCEPT !.last_error = DependencyError(t, error)]
           ELSE saved[u]]
    /\ failed' = IF isFinal THEN failed \cup {t} \cup moved ELSE failed
    /\ pending' = SelectSeq(pending, LAMBDA u : u \notin fromPending)
    /\ retry' = IF isFinal
                THEN SelectSeq(retry, LAMBDA u : u \notin fromRetry)
                ELSE ZAdd(retry, t)
    /\ jobStatus' = [j \in Jobs |->
           IF j \in jobs
           THEN JobCounts(j, jobTasks, pending', retry', processing',
                          completed, failed')
           ELSE jobStatus[j]]
    /\ UNCHANGED <<completed, age, jobTasks, cancelled, dep>>

---------------------------------------------------------------------------
(* cancel_job *)

\* Mutant: only the pending queue is searched.
CancelJobPendingOnly(j) ==
    /\ pending' = SelectSeq(pending, LAMBDA t : t \notin jobTasks[j])
    /\ cancelled' = cancelled \cup {j}
    /\ UNCHANGED <<retry, processing, completed, failed, taskData, age,
                   jobTasks, jobStatus, dep>>

\* Mutant: only the retry queue is searched.
CancelJobRetryOnly(j) ==
    /\ retry' = SelectSeq(retry, LAMBDA t : t \notin jobTasks[j])
    /\ cancelled' = cancelled \cup {j}
    /\ UNCHANGED <<pending, processing, completed, failed, taskData, age,
                   jobTasks, jobStatus, dep>>

CancelJob(j) ==
    /\ pending' = SelectSeq(pending, LAMBDA t : t \notin jobTasks[j])
    /\ retry' = SelectSeq(retry,
           LAMBDA t : ~(t \in jobTasks[j] /\ t \notin Range(pending)))
    /\ cancelled' = cancelled \cup {j}
    /\ UNCHANGED <<processing, completed, failed, taskData, age, jobTasks,
                   jobStatus, dep>>

---------------------------------------------------------------------------
(* The scheduler's cleanup: _cleanup_all_queues *)

\* Mutant: the task is recorded as failed and left in its queue.
RemoveTaskCompletelyKeepsQueue(st, id, q) ==
    [st EXCEPT !.taskData = [@ EXCEPT ![id] = NoTask],
               !.age = [@ EXCEPT ![id] = 0],
               !.failed = @ \cup {id}]

\* _remove_task_completely: out of the queue, task hash deleted, into failed.
RemoveTaskCompletely(st, id, q) ==
    [st EXCEPT ![q] = IF q = "processing" THEN @ \ {id} ELSE ZRem(@, id),
               !.taskData = [@ EXCEPT ![id] = NoTask],
               !.age = [@ EXCEPT ![id] = 0],
               !.failed = @ \cup {id}]

\* _remove_from_queue: out of the queue and nothing else.
RemoveFromQueue(st, id, q) ==
    [st EXCEPT ![q] = IF q = "processing" THEN @ \ {id} ELSE ZRem(@, id)]

\* One iteration of _cleanup_queue_by_criteria.  missing: the tasks whose
\* reference_image_path names a file that no longer exists.
CleanupStep(st, id, q, max_age_hours, missing) ==
    IF ~HasTask(st.taskData, id) THEN RemoveFromQueue(st, id, q)
    ELSE IF id \in missing THEN RemoveTaskCompletely(st, id, q)
    ELSE IF st.age[id] > max_age_hours THEN RemoveTaskCompletely(st, id, q)
    ELSE st

RECURSIVE CleanupQueueByCriteria(_, _, _, _, _)
CleanupQueueByCriteria(st, ids, q, max_age_hours, missing) ==
    IF ids = {} THEN st
    ELSE LET id == CHOOSE x \in ids : TRUE
         IN CleanupQueueByCriteria(CleanupStep(st, id, q, max_age_hours, missing),
                                   ids \ {id}, q, max_age_hours, missing)

CleanupAllQueues(missing) ==
    LET st0 == [pending |-> pending, retry |-> retry, processing |-> processing,
                failed |-> failed, taskData |-> taskData, age |-> age]
        st1 == CleanupQueueByCriteria(st0, Range(st0.pending), "pending",
                                      STALE_PENDING_HOURS, missing)
        st2 == CleanupQueueByCriteria(st1, Range(st1.retry), "retry",
                                      STALE_RETRY_HOURS, missing)
    IN CleanupQueueByCriteria(st2, st2.processing, "processing",
                              STALE_PROCESSING_HOURS, missing)

Reap(missing) ==
    LET st == CleanupAllQueues(missing)
    IN /\ pending' = st.pending
       /\ retry' = st.retry
       /\ processing' = st.processing
       /\ failed' = st.failed
       /\ taskData' = st.taskData
       /\ age' = st.age
       /\ UNCHANGED <<completed, jobTasks, cancelled, jobStatus, dep>>

---------------------------------------------------------------------------
(* Time.  The task hash and the job status hash carry a TTL of 24 hours    *)
(* (TASK_DATA_TTL, JOB_DATA_TTL), set by submit and by _update_job_status. *)

\* The pause (about a minute) and the cooldown of the circuit breaker
\* (CIRCUIT_BREAKER_RESET_TIME, 300 seconds) are over after an hour.
DeadlinesPass ==
    /\ pauseUntil' = [p \in DOMAIN pauseUntil |-> FALSE]
    /\ circuitOpenUntil' = [p \in DOMAIN circuitOpenUntil |-> FALSE]

\* An hour passes.
Tick ==
    /\ \E t \in TaskIds : HasTask(taskData, t) /\ age[t] < AgeCap
    /\ age' = [t \in TaskIds |->
                 IF HasTask(taskData, t) THEN Min(age[t] + 2, AgeCap) ELSE 0]
    /\ UNCHANGED <<pending, retry, processing, completed, failed, taskData,
                   jobTasks, cancelled, jobStatus, dep>>
    /\ DeadlinesPass
    /\ UNCHANGED <<pc, tasks, inflight, sinceCleanup, gb, futures,
                   consecutiveAllKeyFailures, streak>>
    /\ UNCHANGED keyVars

\* 24 hours pass without a store operation: every key with a TTL expires.
Expire ==
    /\ \/ \E t \in TaskIds : HasTask(taskData, t)
       \/ \E j \in Jobs : jobStatus[j] # NoStatus
    /\ taskData' = [t \in TaskIds |-> NoTask]
    /\ age' = [t \in TaskIds |-> 0]
    /\ jobStatus' = [j \in Jobs |-> NoStatus]
    /\ UNCHANGED <<pending, retry, processing, completed, failed, jobTasks, cancelled, dep>>
    /\ DeadlinesPass
    /\ UNCHANGED <<pc, tasks, inflight, sinceCleanup, gb, futures,
                   consecutiveAllKeyFailures, streak>>
    /\ UNCHANGED keyVars

---------------------------------------------------------------------------
(* The scheduler process: BatchProcessor._run_loop and _process_batch *)

Procs == {"A", "B"}
Limits == (1..MaxSmallLimit) \cup {BATCH_SIZE}
IdleGB == [phase |-> "idle", ids |-> <<>>, tasks |-> <<>>, limit |-> 0]

\* The future of a task whose _generate_image call has not started: stage
\* "new", then "running" (the loop over the keys), then "done" with the class
\* of the exception it raised ("": it returned a path).  History: signal is the
\* class of the last failure the generation function reported, clients the
\* number of keys _get_client handed out.
NoFuture == [stage |-> "new", attempt |-> 0, exc |-> "", message |-> "",
             signal |-> "", clients |-> 0]

\* _run_startup_cleanup, once, before the loop
\* The messages of the exceptions of a generation: those an
\* ApiKeyExhaustedError carries ("All N Gemini API keys ... exhausted ...")
\* and the others.
ExhaustedErrors == {"All keys exhausted"}

\* "All" in str(e) and "exhausted" in str(e)
AllKeysExhaustedMessage(e) == e \in ExhaustedErrors

\* Mutant: the circuit is never found open.
IsCircuitOpenNever(p) == FALSE

\* _is_circuit_open: time.time() < self._circuit_open_until
IsCircuitOpen(p) == circuitOpenUntil[p]

\* Mutant: the pause never ends.
IsPausedForever(p) == TRUE

\* self._paused and time.time() < self._pause_until.  _paused is set together
\* with every _pause_until and cleared only once the deadline was met, so the
\* test is the test of the deadline.
IsPaused(p) == pauseUntil[p]

NoStreak == [n |-> 0, counted |-> FALSE]

\* BatchProcessor.__init__: no pause, counter 0, circuit closed
InitBreaker ==
    /\ pauseUntil = [p \in Procs |-> FALSE]
    /\ circuitOpenUntil = [p \in Procs |-> FALSE]
    /\ consecutiveAllKeyFailures = [p \in Procs |-> 0]
    /\ streak = [p \in Procs |-> NoStreak]

\* Mutant: the circuit opens one failure later.
ThresholdReachedLate(n) == n > CIRCUIT_BREAKER_THRESHOLD

\* self._consecutive_all_key_failures >= self.CIRCUIT_BREAKER_THRESHOLD
ThresholdReached(n) == n >= CIRCUIT_BREAKER_THRESHOLD

\* _record_all_keys_exhausted
RecordAllKeysExhausted(p) ==
    /\ consecutiveAllKeyFailures[p] < MaxFailures
    /\ consecutiveAllKeyFailures' =
          [consecutiveAllKeyFailures EXCEPT ![p] = @ + 1]
    /\ circuitOpenUntil' =
          IF ThresholdReached(consecutiveAllKeyFailures[p] + 1)
          THEN [circuitOpenUntil EXCEPT ![p] = TRUE]
          ELSE circuitOpenUntil
    /\ streak' = IF streak[p].counted
                 THEN streak
                 ELSE [streak EXCEPT ![p] = [n |-> Min(@.n + 1, MaxFailures),
                                             counted |-> TRUE]]

\* _record_generation_success
RecordGenerationSuccess(p) ==
    /\ consecutiveAllKeyFailures' = [consecutiveAllKeyFailures EXCEPT ![p] = 0]
    /\ streak' = [streak EXCEPT ![p] = NoStreak]
    /\ UNCHANGED <<pauseUntil, circuitOpenUntil>>

\* Mutant: only a RateLimitError pauses the loop.
PauseOnRateLimitErrorOnly(p, e) ==
    pauseUntil' = IF PAUSE_ON_RATE_LIMIT /\ ~AllKeysExhaustedMessage(e)
                  THEN [pauseUntil EXCEPT ![p] = TRUE]
                  ELSE pauseUntil

\* The pause of the handler of RateLimitError and ApiKeyExhaustedError:
\* _handle_rate_limit (when PAUSE_ON_RATE_LIMIT) or the pause of 303-304.
PauseAfterRateLimit(p, e) ==
    pauseUntil' = IF PAUSE_ON_RATE_LIMIT \/ AllKeysExhaustedMessage(e)
                  THEN [pauseUntil EXCEPT ![p] = TRUE]
                  ELSE pauseUntil

StartupCleanup(p, missing) ==
    /\ pc[p] = "start"
    /\ Reap(missing)
    /\ pc' = [pc EXCEPT ![p] = "loop"]
    /\ UNCHANGED <<tasks, inflight, sinceCleanup, gb, futures>>
    /\ UNCHANGED breakerVars
    /\ UNCHANGED keyVars

\* One cycle of the loop up to the dispatch: tasks = get_batch(limit)
Pull(p, limit) ==
    /\ pc[p] = "loop"
    /\ ~IsCircuitOpen(p)
    /\ ~IsPaused(p)
    /\ streak' = [streak EXCEPT ![p].counted = FALSE]
    /\ LET st == GetBatchResult(limit)
       IN /\ pending' = st.pending
          /\ retry' = st.retry
          /\ processing' = st.processing
          /\ taskData' = st.taskData
          /\ tasks' = [tasks EXCEPT ![p] = st.tasks]
          /\ inflight' = [inflight EXCEPT ![p] = TaskIdsOf(st.tasks)]
          /\ pc' = [pc EXCEPT ![p] = IF st.tasks # <<>> THEN "collect" ELSE "wait"]
    /\ UNCHANGED <<completed, failed, age, jobTasks, cancelled, jobStatus, dep,
                   sinceCleanup, gb, futures>>
    /\ UNCHANGED <<pauseUntil, circuitOpenUntil, consecutiveAllKeyFailures>>
    /\ UNCHANGED keyVars

\* The outcome of one future of the batch, applied in the as_completed loop.
Collected(p, t) ==
    /\ pc[p] = "collect"
    /\ t \in inflight[p]
    /\ inflight' = [inflight EXCEPT ![p] = @ \ {t}]
    /\ UNCHANGED <<pc, tasks, sinceCleanup, gb, futures>>
    /\ UNCHANGED keyVars

\* Mutant: a statement after mark_complete raises inside the try block, and
\* the except clause applies mark_failed to the completed task.
SucceedThenExcept(p, t, result_path) ==
    /\ Collected(p, t)
    /\ HasTask(taskData, t)
    /\ processing' = processing \ {t}
    /\ completed' = completed \cup {t}
    /\ retry' = ZAdd(retry, t)
    /\ UNCHANGED <<pending, failed, taskData, age, jobTasks, jobStatus, dep,
                   cancelled>>
    /\ RecordGenerationSuccess(p)

\* future.result() returned a path
Succeed(p, t, result_path) ==
    /\ Collected(p, t)
    /\ MarkComplete(t, result_path)
    /\ RecordGenerationSuccess(p)

\* except TimeoutError
FailTimeout(p, t) ==
    /\ Collected(p, t)
    /\ MarkFailed(t, "Generation timeout", FALSE, FALSE)
    /\ UNCHANGED breakerVars

\* except (RateLimitError, ApiKeyExhaustedError)
FailRateLimit(p, t, e) ==
    /\ Collected(p, t)
    /\ MarkFailed(t, e, TRUE, FALSE)
    /\ PauseAfterRateLimit(p, e)
    /\ IF AllKeysExhaustedMessage(e)
       THEN RecordAllKeysExhausted(p)
       ELSE UNCHANGED <<circuitOpenUntil, consecutiveAllKeyFailures, streak>>

\* except FileNotFoundError
FailMissingFile(p, t, e) ==
    /\ Collected(p, t)
    /\ MarkFailed(t, e, FALSE, TRUE)
    /\ UNCHANGED breakerVars

\* except Exception
FailOther(p, t, e) ==
    /\ Collected(p, t)
    /\ MarkFailed(t, e, FALSE, FALSE)
    /\ UNCHANGED breakerVars

\* Mutant: _run_periodic_cleanup counts the batches and never cleans.
EndBatchNeverCleans(p, missing) ==
    /\ pc[p] = "collect"
    /\ inflight[p] = {}
    /\ pc' = [pc EXCEPT ![p] = "wait"]
    /\ tasks' = [tasks EXCEPT ![p] = <<>>]
    /\ sinceCleanup' = [sinceCleanup EXCEPT ![p] =
                           IF @ + 1 < CLEANUP_INTERVAL THEN @ + 1 ELSE 0]
    /\ missing = {}
    /\ UNCHANGED storeVars
    /\ futures' = [t \in TaskIds |->
                      IF t \in TaskIdsOf(tasks[p]) THEN NoFuture ELSE futures[t]]
    /\ UNCHANGED <<inflight, gb>>
    /\ UNCHANGED breakerVars
    /\ UNCHANGED keyVars

\* Mutant: _process_batch returns without waiting for the remaining futures.
EndBatchEarly(p, missing) ==
    /\ pc[p] = "collect"
    /\ pc' = [pc EXCEPT ![p] = "wait"]
    /\ tasks' = [tasks EXCEPT ![p] = <<>>]
    /\ IF sinceCleanup[p] + 1 < CLEANUP_INTERVAL
       THEN /\ sinceCleanup' = [sinceCleanup EXCEPT ![p] = @ + 1]
            /\ missing = {}
            /\ UNCHANGED storeVars
       ELSE /\ sinceCleanup' = [sinceCleanup EXCEPT ![p] = 0]
            /\ Reap(missing)
    /\ futures' = [t \in TaskIds |->
                      IF t \in TaskIdsOf(tasks[p]) THEN NoFuture ELSE futures[t]]
    /\ UNCHANGED <<inflight, gb>>
    /\ UNCHANGED breakerVars
    /\ UNCHANGED keyVars

\* _process_batch has returned: batches_processed += 1, _run_periodic_cleanup
EndBatch(p, missing) ==
    /\ pc[p] = "collect"
    /\ inflight[p] = {}
    /\ pc' = [pc EXCEPT ![p] = "wait"]
    /\ tasks' = [tasks EXCEPT ![p] = <<>>]
    /\ IF sinceCleanup[p] + 1 < CLEANUP_INTERVAL
       THEN /\ sinceCleanup' = [sinceCleanup EXCEPT ![p] = @ + 1]
            /\ missing = {}
            /\ UNCHANGED storeVars
       ELSE /\ sinceCleanup' = [sinceCleanup EXCEPT ![p] = 0]
            /\ Reap(missing)
    /\ futures' = [t \in TaskIds |->
                      IF t \in TaskIdsOf(tasks[p]) THEN NoFuture ELSE futures[t]]
    /\ UNCHANGED <<inflight, gb>>
    /\ UNCHANGED breakerVars
    /\ UNCHANGED keyVars

\* A cycle that finds the circuit open: no batch, the loop sleeps
\* (_stop_event.wait(BATCH_INTERVAL); continue).
SkipCircuit(p) ==
    /\ pc[p] = "loop"
    /\ IsCircuitOpen(p)
    /\ pc' = [pc EXCEPT ![p] = "sleep"]
    /\ UNCHANGED <<tasks, inflight, sinceCleanup, gb, futures>>
    /\ UNCHANGED breakerVars
    /\ UNCHANGED storeVars
    /\ UNCHANGED keyVars

\* A cycle that finds the circuit closed and the pause deadline ahead: no
\* batch, the loop sleeps (wait(min(wait_time, BATCH_INTERVAL)); continue).
SkipPaused(p) ==
    /\ pc[p] = "loop"
    /\ ~IsCircuitOpen(p)
    /\ IsPaused(p)
    /\ pc' = [pc EXCEPT ![p] = "sleep"]
    /\ UNCHANGED <<tasks, inflight, sinceCleanup, gb, futures>>
    /\ UNCHANGED breakerVars
    /\ UNCHANGED storeVars
    /\ UNCHANGED keyVars

\* time.time() reaches _pause_until
PauseDeadline(p) ==
    /\ pauseUntil[p]
    /\ pauseUntil' = [pauseUntil EXCEPT ![p] = FALSE]
    /\ UNCHANGED <<pc, tasks, inflight, sinceCleanup, gb, futures,
                   circuitOpenUntil,
                   consecutiveAllKeyFailures, streak>>
    /\ UNCHANGED storeVars
    /\ UNCHANGED keyVars

\* time.time() reaches _circuit_open_until
CircuitDeadline(p) ==
    /\ circuitOpenUntil[p]
    /\ circuitOpenUntil' = [circuitOpenUntil EXCEPT ![p] = FALSE]
    /\ UNCHANGED <<pc, tasks, inflight, sinceCleanup, gb, futures,
                   pauseUntil,
                   consecutiveAllKeyFailures, streak>>
    /\ UNCHANGED storeVars
    /\ UNCHANGED keyVars

\* The end of a cycle: the loop waits out the rest of the batch interval (or
\* the sleep of a skipped cycle) and starts the next cycle.
Wait(p) ==
    /\ pc[p] \in {"wait", "sleep"}
    /\ pc' = [pc EXCEPT ![p] = "loop"]
    /\ UNCHANGED <<tasks, inflight, sinceCleanup, gb, futures>>
    /\ UNCHANGED breakerVars
    /\ UNCHANGED storeVars
    /\ UNCHANGED keyVars

\* The process ends (stop signal, crash or kill) and a new one is started:
\* a fresh BatchProcessor; the tasks in flight are abandoned in processing.
Restart(p) ==
    /\ pc[p] \in {"loop", "collect", "wait", "sleep"}
    /\ pc' = [pc EXCEPT ![p] = "start"]
    /\ tasks' = [tasks EXCEPT ![p] = <<>>]
    /\ inflight' = [inflight EXCEPT ![p] = {}]
    /\ sinceCleanup' = [sinceCleanup EXCEPT ![p] = 0]
    /\ pauseUntil' = [pauseUntil EXCEPT ![p] = FALSE]
    /\ circuitOpenUntil' = [circuitOpenUntil EXCEPT ![p] = FALSE]
    /\ consecutiveAllKeyFailures' = [consecutiveAllKeyFailures EXCEPT ![p] = 0]
    /\ streak' = [streak EXCEPT ![p] = NoStreak]
    /\ futures' = [t \in TaskIds |-> NoFuture]
    /\ UNCHANGED gb
    /\ UNCHANGED storeVars
    /\ UNCHANGED keyVars

---------------------------------------------------------------------------
(* The submission layer and the admin surface *)

Submitted == UNION {jobTasks[j] : j \in Jobs}

SubmitTask(t) ==
    /\ t \notin Submitted
    /\ Submit(t)
    /\ UNCHANGED schedVars
    /\ UNCHANGED keyVars

\* The dict cancel_job returns: each id counts once, in the first of pending,
\* retry, processing that holds it.
CancelJobReturn(j) ==
    LET inPending == {t \in jobTasks[j] : t \in Range(pending)}
        inRetry == {t \in jobTasks[j] \ inPending : t \in Range(retry)}
        inProcessing == {t \in jobTasks[j] \ (inPending \cup inRetry) :
                            t \in processing}
    IN [cancelled |-> Cardinality(inPending) + Cardinality(inRetry),
        processing |-> Cardinality(inProcessing)]

Cancel(j) ==
    /\ jobTasks[j] # {}
    /\ CancelJob(j)
    /\ UNCHANGED schedVars
    /\ UNCHANGED keyVars

---------------------------------------------------------------------------
(* get_batch step by step.  self._lock serializes the get_batch calls of   *)
(* one process only; a second scheduler process holds a lock of its own.   *)
(* Each step below is one iteration of a loop of get_batch against the     *)
(* shared store, so calls of different processes interleave between        *)
(* iterations.                                                             *)

\* retry_ids = zrange(RETRY_KEY, 0, limit - 1)
GBBegin(p, limit) ==
    /\ pc[p] = "loop"
    /\ ~IsCircuitOpen(p)
    /\ ~IsPaused(p)
    /\ gb[p].phase = "idle"
    /\ gb' = [gb EXCEPT ![p] = [phase |-> "retry",
                                ids |-> RetryWindow(retry, limit),
                                tasks |-> <<>>, limit |-> limit]]
    /\ UNCHANGED <<pc, tasks, inflight, sinceCleanup, futures>>
    /\ UNCHANGED breakerVars
    /\ UNCHANGED storeVars
    /\ UNCHANGED keyVars

\* One iteration of the loop over retry_ids or over pending_ids
GBIterate(p) ==
    /\ gb[p].phase \in {"retry", "pending"}
    /\ gb[p].ids # <<>>
    /\ LET st == GBStep([tasks |-> gb[p].tasks, pending |-> pending,
                         retry |-> retry, processing |-> processing,
                         taskData |-> taskData],
                        Head(gb[p].ids), gb[p].limit, gb[p].phase, dep)
       IN /\ pending' = st.pending
          /\ retry' = st.retry
          /\ processing' = st.processing
          /\ taskData' = st.taskData
          /\ gb' = [gb EXCEPT ![p].tasks = st.tasks, ![p].ids = Tail(@)]
    /\ UNCHANGED <<completed, failed, age, jobTasks, cancelled, jobStatus, dep>>
    /\ UNCHANGED <<pc, tasks, inflight, sinceCleanup, futures>>
    /\ UNCHANGED breakerVars
    /\ UNCHANGED keyVars

\* The retry loop is over: pending_ids = zrange(PENDING_KEY, 0, remaining * 2)
GBNextLoop(p) ==
    /\ gb[p].phase = "retry"
    /\ gb[p].ids = <<>>
    /\ LET remaining == gb[p].limit - Len(gb[p].tasks)
       IN gb' = [gb EXCEPT ![p].phase = "pending",
                           ![p].ids = IF remaining > 0
                                      THEN PendingWindow(pending, remaining)
                                      ELSE <<>>]
    /\ UNCHANGED <<pc, tasks, inflight, sinceCleanup, futures>>
    /\ UNCHANGED breakerVars
    /\ UNCHANGED storeVars
    /\ UNCHANGED keyVars

\* return tasks
GBReturn(p) ==
    /\ gb[p].phase = "pending"
    /\ gb[p].ids = <<>>
    /\ tasks' = [tasks EXCEPT ![p] = gb[p].tasks]
    /\ inflight' = [inflight EXCEPT ![p] = TaskIdsOf(gb[p].tasks)]
    /\ pc' = [pc EXCEPT ![p] = IF gb[p].tasks # <<>> THEN "collect" ELSE "wait"]
    /\ gb' = [gb EXCEPT ![p] = IdleGB]
    /\ UNCHANGED <<sinceCleanup, futures>>
    /\ UNCHANGED breakerVars
    /\ UNCHANGED storeVars
    /\ UNCHANGED keyVars

---------------------------------------------------------------------------
(* The credential pool: ApiKeyManager (api_key_manager.py).  A counter     *)
(* whose Redis key does not exist reads as 0 (int(redis.get(k) or 0)).     *)

KeyIds == {"k1", "k2", "k3"}
ModelTypes == {"text", "image"}
\* model_type = None of reset_key / reset_all_keys
AllModels == "all"

\* RATE_LIMITS.get(model_type, RATE_LIMITS['image'])
RATE_LIMITS(model_type) ==
    IF model_type = "text"
    THEN [rpm |-> TEXT_RPM, daily |-> TEXT_DAILY]
    ELSE [rpm |-> IMAGE_RPM, daily |-> IMAGE_DAILY]

NoRet == [model_type |-> "", key |-> "", raised |-> FALSE]
NoPicks == [n |-> [k \in KeyIds |-> 0], exhausted |-> FALSE]

\* Mutant: the daily counter is not compared with its limit.
IsAvailableIgnoresDaily(k, model_type) ==
    /\ ~freeTier[k][model_type]
    /\ rpm[k][model_type] < RATE_LIMITS(model_type).rpm

\* Mutant: the free_tier flag is not read.
IsAvailableIgnoresFreeTier(k, model_type) ==
    /\ rpm[k][model_type] < RATE_LIMITS(model_type).rpm
    /\ daily[k][model_type] < RATE_LIMITS(model_type).daily

\* get_key_usage(key, model_type)['is_available']
IsAvailable(k, model_type) ==
    /\ ~freeTier[k][model_type]
    /\ rpm[k][model_type] < RATE_LIMITS(model_type).rpm
    /\ daily[k][model_type] < RATE_LIMITS(model_type).daily

\* Mutant: the scan starts at the first key, whatever was selected last.
KeyOrderFromZero(last, n, i) == i % n

\* idx = (self._last_key_index + 1 + i) % len(self.keys)
KeyOrder(last, n, i) == (last + 1 + i) % n

\* Mutant: the selected index is not remembered.
KeepLastIndex(last, idx) == last

\* self._last_key_index = idx
RecordIndex(last, idx) == idx

\* get_available_key: the first available key in the order of KeyOrder, or
\* ApiKeyExhaustedError.
GetAvailableKey(model_type) ==
    LET n == Len(keys)
        hits == {i \in 0..(n - 1) :
                    IsAvailable(keys[KeyOrder(lastKeyIndex, n, i) + 1], model_type)}
    IN IF hits = {}
       THEN /\ ret' = [model_type |-> model_type, key |-> "", raised |-> TRUE]
            /\ UNCHANGED lastKeyIndex
       ELSE LET i == CHOOSE h \in hits : \A g \in hits : h <= g
                idx == KeyOrder(lastKeyIndex, n, i)
            IN /\ lastKeyIndex' = RecordIndex(lastKeyIndex, idx)
               /\ ret' = [model_type |-> model_type, key |-> keys[idx + 1],
                          raised |-> FALSE]

\* The history of selections: counted until a call finds the key of its turn
\* unavailable.
CountPick(model_type) ==
    LET turn == keys[((lastKeyIndex + 1) % Len(keys)) + 1]
    IN IF picks.exhausted \/ ~IsAvailable(turn, model_type) \/ ret'.raised
       THEN [picks EXCEPT !.exhausted = TRUE]
       ELSE [picks EXCEPT !.n[ret'.key] = @ + 1]

\* A caller takes a key.
Acquire(model_type) ==
    /\ GetAvailableKey(model_type)
    /\ UNCHANGED <<keys, held, rpm, daily, freeTier, picks, dailyReported>>
    /\ UNCHANGED <<rpmTtl, cooldown>>
    /\ UNCHANGED <<storeVars, schedVars>>

\* record_usage: INCR on both counters; worker: the call is that of a worker
\* thread for the key its client was made with.
RecordUsageBy(k, model_type, worker) ==
    /\ rpm[k][model_type] < RATE_LIMITS(model_type).rpm + MaxOver
    /\ daily[k][model_type] < RATE_LIMITS(model_type).daily + MaxOver
    /\ worker => held[k] > 0
    /\ rpm' = [rpm EXCEPT ![k][model_type] = @ + 1]
    /\ daily' = [daily EXCEPT ![k][model_type] = @ + 1]
    /\ rpmTtl' = [rpmTtl EXCEPT ![k][model_type] = RPM_TTL]
    /\ held' = IF worker THEN [held EXCEPT ![k] = @ - 1] ELSE held
    /\ UNCHANGED <<keys, lastKeyIndex, freeTier, ret, picks, dailyReported,
                   cooldown>>
    /\ UNCHANGED <<storeVars, schedVars>>

RecordUsage(k, model_type) == RecordUsageBy(k, model_type, FALSE)

\* A worker thread of the batch calls _get_client() and holds the key until it
\* has recorded the outcome of its generation call.
WorkerGetClient ==
    /\ held["k1"] + held["k2"] + held["k3"] < MAX_WORKERS
    /\ GetAvailableKey("image")
    /\ held' = IF ret'.raised THEN held ELSE [held EXCEPT ![ret'.key] = @ + 1]
    /\ UNCHANGED <<keys, rpm, daily, freeTier, picks, dailyReported>>
    /\ UNCHANGED <<rpmTtl, cooldown>>
    /\ UNCHANGED <<storeVars, schedVars>>

\* Mutant: a rate-limited failure counts as one more request.
ExhaustedRpmIncrement(used, limit) == used + 1

\* redis.set(rpm_key, limits['rpm'])
ExhaustedRpm(used, limit) == limit

\* record_failure; timed: the history variable cooldown starts to count the
\* 60 seconds from this call.
RecordFailureTimed(k, model_type, is_rate_limit, timed) ==
    /\ rpm' = IF is_rate_limit
              THEN [rpm EXCEPT ![k][model_type] =
                       ExhaustedRpm(@, RATE_LIMITS(model_type).rpm)]
              ELSE rpm
    /\ rpmTtl' = IF is_rate_limit
                 THEN [rpmTtl EXCEPT ![k][model_type] = RPM_TTL]
                 ELSE rpmTtl
    /\ cooldown' = IF is_rate_limit /\ timed
                   THEN [cooldown EXCEPT ![k][model_type] = RPM_TTL]
                   ELSE cooldown
    /\ UNCHANGED <<keys, held, lastKeyIndex, daily, freeTier, ret, picks,
                   dailyReported>>
    /\ UNCHANGED <<storeVars, schedVars>>

RecordFailure(k, model_type, is_rate_limit) ==
    RecordFailureTimed(k, model_type, is_rate_limit, FALSE)

\* reset_key(key_id, model_type): DEL of the rpm and the daily counter of the
\* model type, or of both model types when model_type is None.
ResetCounters(counter, ks, model_type) ==
    [k \in KeyIds |-> [m \in ModelTypes |->
        IF k \in ks /\ model_type \in {m, AllModels} THEN 0 ELSE counter[k][m]]]

ResetKey(k, model_type) ==
    /\ rpm' = ResetCounters(rpm, {k}, model_type)
    /\ daily' = ResetCounters(daily, {k}, model_type)
    /\ rpmTtl' = ResetCounters(rpmTtl, {k}, model_type)
    /\ cooldown' = ResetCounters(cooldown, {k}, model_type)
    /\ UNCHANGED <<keys, held, lastKeyIndex, freeTier, ret, picks, dailyReported>>
    /\ UNCHANGED <<storeVars, schedVars>>

\* reset_all_keys(model_type): reset_key for every configured key
ResetAllKeys(model_type) ==
    /\ rpm' = ResetCounters(rpm, Range(keys), model_type)
    /\ daily' = ResetCounters(daily, Range(keys), model_type)
    /\ rpmTtl' = ResetCounters(rpmTtl, Range(keys), model_type)
    /\ cooldown' = ResetCounters(cooldown, Range(keys), model_type)
    /\ UNCHANGED <<keys, held, lastKeyIndex, freeTier, ret, picks, dailyReported>>
    /\ UNCHANGED <<storeVars, schedVars>>

\* 60 seconds after the last write of an rpm counter its key expires.
RpmExpire(k, model_type) ==
    /\ rpm[k][model_type] > 0
    /\ rpm' = [rpm EXCEPT ![k][model_type] = 0]
    /\ rpmTtl' = [rpmTtl EXCEPT ![k][model_type] = 0]
    /\ cooldown' = [cooldown EXCEPT ![k][model_type] = 0]
    /\ UNCHANGED <<keys, held, lastKeyIndex, daily, freeTier, ret, picks,
                   dailyReported>>
    /\ UNCHANGED <<storeVars, schedVars>>

\* Midnight Pacific Time: every daily counter expires (record_usage gives each
\* new daily key the seconds until midnight as its TTL).
DailyReset ==
    /\ \/ \E k \in KeyIds, m \in ModelTypes : daily[k][m] > 0
       \/ dailyReported # {}
    /\ daily' = [k \in KeyIds |-> [m \in ModelTypes |-> 0]]
    /\ dailyReported' = {}
    /\ UNCHANGED <<keys, held, lastKeyIndex, rpm, freeTier, ret, picks>>
    /\ UNCHANGED <<rpmTtl, cooldown>>
    /\ UNCHANGED <<storeVars, schedVars>>

\* Thirty seconds pass: every TTL is half a minute shorter, and an rpm counter
\* whose TTL has run out is gone.
HalfMinute ==
    /\ \E k \in KeyIds, m \in ModelTypes : rpmTtl[k][m] > 0 \/ cooldown[k][m] > 0
    /\ rpmTtl' = [k \in KeyIds |-> [m \in ModelTypes |->
                     IF rpmTtl[k][m] > 0 THEN rpmTtl[k][m] - 1 ELSE 0]]
    /\ rpm' = [k \in KeyIds |-> [m \in ModelTypes |->
                  IF rpmTtl[k][m] <= 1 THEN 0 ELSE rpm[k][m]]]
    /\ cooldown' = [k \in KeyIds |-> [m \in ModelTypes |->
                       IF cooldown[k][m] > 0 THEN cooldown[k][m] - 1 ELSE 0]]
    /\ UNCHANGED <<keys, held, lastKeyIndex, daily, freeTier, ret, picks,
                   dailyReported>>
    /\ UNCHANGED <<storeVars, schedVars>>

\* _generate_image, free-tier error of the API for the key in use:
\* manager.redis.set("gemini:key:<id>:image:free_tier", "true"), no TTL.
FreeTierDetected(k) ==
    /\ ~freeTier[k]["image"]
    /\ freeTier' = [freeTier EXCEPT ![k]["image"] = TRUE]
    /\ UNCHANGED <<keys, held, lastKeyIndex, rpm, daily, ret, picks, dailyReported>>
    /\ UNCHANGED <<rpmTtl, cooldown>>
    /\ UNCHANGED <<storeVars, schedVars>>

\* _generate_image, daily-limit error of the API for the key in use: the call
\* manager.record_daily_exhaustion(api_key, model_type='image') names a method
\* ApiKeyManager does not have; it raises AttributeError and writes nothing.
DailyExhaustionReported(k) ==
    /\ k \notin dailyReported
    /\ dailyReported' = dailyReported \cup {k}
    /\ UNCHANGED <<keys, held, lastKeyIndex, rpm, daily, freeTier, ret, picks>>
    /\ UNCHANGED <<rpmTtl, cooldown>>
    /\ UNCHANGED <<storeVars, schedVars>>

\* ApiKeyManager.__init__ with the keys ks of GEMINI_API_KEYS, on a Redis
\* without key counters.
InitKeys(ks) ==
    /\ keys = ks
    /\ lastKeyIndex = -1
    /\ rpm = [k \in KeyIds |-> [m \in ModelTypes |-> 0]]
    /\ daily = [k \in KeyIds |-> [m \in ModelTypes |-> 0]]
    /\ freeTier = [k \in KeyIds |-> [m \in ModelTypes |-> FALSE]]
    /\ ret = NoRet
    /\ picks = NoPicks
    /\ dailyReported = {}
    /\ rpmTtl = [k \in KeyIds |-> [m \in ModelTypes |-> 0]]
    /\ cooldown = [k \in KeyIds |-> [m \in ModelTypes |-> 0]]
    /\ held = [k \in KeyIds |-> 0]

---------------------------------------------------------------------------
(* The worker threads: BatchProcessor._generate_image for one task of the  *)
(* batch.  The generation function is opaque: each call returns a path or  *)
(* reports a failure of one of the classes of Signals, told apart by       *)
(* _generate_image from the text of the exception.                         *)

\* "free_tier": 'free_tier' / 'limit: 0'; "rate": 429 or rate without a daily
\* marker; "daily": a quota or per-day marker; "timeout": a TimeoutError;
\* "other": anything else.
Signals == {"ok", "free_tier", "rate", "daily", "timeout", "other"}

\* Mutant: the files are looked at by the generation function only, after a
\* key was taken.
GenValidateAfterClient(p, t, missing) ==
    /\ pc[p] = "collect"
    /\ t \in inflight[p]
    /\ futures[t].stage = "new"
    /\ futures' = [futures EXCEPT ![t] =
          IF missing
          THEN [@ EXCEPT !.stage = "done", !.exc = "FileNotFoundError",
                         !.message = "x", !.clients = 1]
          ELSE [@ EXCEPT !.stage = "running"]]
    /\ UNCHANGED <<pc, tasks, inflight, sinceCleanup, gb>>
    /\ UNCHANGED breakerVars
    /\ UNCHANGED storeVars
    /\ UNCHANGED keyVars

\* The thread starts: the three os.path.exists checks.  missing: one of the
\* files the task names does not exist.
GenValidate(p, t, missing) ==
    /\ pc[p] = "collect"
    /\ t \in inflight[p]
    /\ futures[t].stage = "new"
    /\ futures' = [futures EXCEPT ![t] =
          IF missing
          THEN [@ EXCEPT !.stage = "done", !.exc = "FileNotFoundError",
                         !.message = "x"]
          ELSE [@ EXCEPT !.stage = "running"]]
    /\ UNCHANGED <<pc, tasks, inflight, sinceCleanup, gb>>
    /\ UNCHANGED breakerVars
    /\ UNCHANGED storeVars
    /\ UNCHANGED keyVars

\* The exception a failure of the generation function ends the call with, ""
\* when the loop goes on to the next key.  The daily branch calls
\* manager.record_daily_exhaustion, which ApiKeyManager does not define.
RaisedFor(signal) ==
    CASE signal \in {"free_tier", "rate"} -> ""
      [] signal = "daily" -> "AttributeError"
      [] signal = "timeout" -> "TimeoutError"
      [] OTHER -> "Exception"

\* gemini_service_v2._get_client (not among the sources): by its use in
\* _generate_image and the pool's interface, a client for the key that
\* get_available_key('image') returns, or its ApiKeyExhaustedError.
GetClient == GetAvailableKey("image")

\* gemini_service_v2._record_api_usage (not among the sources): by its
\* arguments, record_usage on success and record_failure otherwise.
RecordApiUsage(k, success, is_rate_limit) ==
    /\ rpm' = IF success THEN [rpm EXCEPT ![k]["image"] = @ + 1]
              ELSE IF is_rate_limit
              THEN [rpm EXCEPT ![k]["image"] =
                       ExhaustedRpm(@, RATE_LIMITS("image").rpm)]
              ELSE rpm
    /\ daily' = IF success THEN [daily EXCEPT ![k]["image"] = @ + 1] ELSE daily
    /\ rpmTtl' = IF success \/ is_rate_limit
                 THEN [rpmTtl EXCEPT ![k]["image"] = RPM_TTL]
                 ELSE rpmTtl
    /\ cooldown' = cooldown

\* One iteration of `for attempt in range(num_keys)`: _get_client(), the
\* generation call, the recording of its outcome; and the raise after the loop
\* when this was the last iteration.
GenAttempt(p, t, signal) ==
    /\ pc[p] = "collect"
    /\ t \in inflight[p]
    /\ futures[t].stage = "running"
    /\ GetClient
    /\ LET f == futures[t]
           k == ret'.key
           last == f.attempt + 1 = Len(keys)
           raised == RaisedFor(signal)
       IN IF ret'.raised
          THEN /\ futures' = [futures EXCEPT ![t] =
                     [f EXCEPT !.stage = "done", !.exc = "ApiKeyExhaustedError",
                               !.message = "All keys exhausted"]]
               /\ UNCHANGED <<rpm, daily, freeTier, rpmTtl, cooldown>>
          ELSE /\ IF signal = "daily"
                  THEN UNCHANGED <<rpm, daily, rpmTtl, cooldown>>
                  ELSE RecordApiUsage(k, signal = "ok",
                                      signal \in {"free_tier", "rate"})
               /\ freeTier' = IF signal = "free_tier"
                              THEN [freeTier EXCEPT ![k]["image"] = TRUE]
                              ELSE freeTier
               /\ futures' = [futures EXCEPT ![t] =
                     [f EXCEPT
                        !.clients = @ + 1,
                        !.attempt = @ + 1,
                        !.signal = IF signal = "ok" THEN "" ELSE signal,
                        !.stage = IF signal = "ok" \/ raised # "" \/ last
                                  THEN "done" ELSE "running",
                        !.exc = IF signal = "ok" THEN ""
                                ELSE IF raised # "" THEN raised
                                ELSE IF last THEN "ApiKeyExhaustedError" ELSE "",
                        !.message = IF signal = "ok" THEN ""
                                    ELSE IF raised # "" THEN "x"
                                    ELSE IF last THEN "All keys exhausted" ELSE ""]]
    /\ UNCHANGED <<keys, held, picks, dailyReported>>
    /\ UNCHANGED <<pc, tasks, inflight, sinceCleanup, gb>>
    /\ UNCHANGED breakerVars
    /\ UNCHANGED storeVars

\* The as_completed loop takes the finished future of t: future.result() and
\* the except clause of the class it raised.
CollectFuture(p, t) ==
    /\ futures[t].stage = "done"
    /\ CASE futures[t].exc = "" -> Succeed(p, t, "r1")
         [] futures[t].exc = "TimeoutError" -> FailTimeout(p, t)
         [] futures[t].exc = "ApiKeyExhaustedError" ->
               FailRateLimit(p, t, futures[t].message)
         [] futures[t].exc = "FileNotFoundError" ->
               FailMissingFile(p, t, futures[t].message)
         [] OTHER -> FailOther(p, t, futures[t].message)

---------------------------------------------------------------------------
(* Spec: one scheduler process on the store, one producer and one consumer *)

CoreTasks == {"P", "C"}

InitStore ==
    /\ pending = <<>>
    /\ retry = <<>>
    /\ processing = {}
    /\ completed = {}
    /\ failed = {}
    /\ taskData = [t \in TaskIds |-> NoTask]
    /\ age = [t \in TaskIds |-> 0]
    /\ jobTasks = [j \in Jobs |-> {}]
    /\ jobStatus = [j \in Jobs |-> NoStatus]
    /\ dep = [g \in Groups |-> NoDep]
    /\ cancelled = {}

Init ==
    /\ InitStore
    /\ pc = [p \in Procs |-> IF p = "A" THEN "start" ELSE "off"]
    /\ tasks = [p \in Procs |-> <<>>]
    /\ inflight = [p \in Procs |-> {}]
    /\ sinceCleanup = [p \in Procs |-> 0]
    /\ gb = [p \in Procs |-> IdleGB]
    /\ futures = [t \in TaskIds |-> NoFuture]
    /\ InitBreaker
    /\ InitKeys(<<"k1", "k2">>)

Next ==
    \/ \E t \in CoreTasks : SubmitTask(t)
    \/ \E j \in Jobs : Cancel(j)
    \/ Tick
    \/ Expire
    \/ \E m \in SUBSET CoreTasks : StartupCleanup("A", m)
    \/ \E l \in Limits : Pull("A", l)
    \/ \E t \in CoreTasks, r \in Results : Succeed("A", t, r)
    \/ \E t \in CoreTasks : FailTimeout("A", t)
    \/ \E t \in CoreTasks, e \in Errors : FailRateLimit("A", t, e)
    \/ \E t \in CoreTasks, e \in Errors : FailMissingFile("A", t, e)
    \/ \E t \in CoreTasks, e \in Errors : FailOther("A", t, e)
    \/ \E m \in SUBSET CoreTasks : EndBatch("A", m)
    \/ SkipPaused("A")
    \/ PauseDeadline("A")
    \/ Wait("A")
    \/ Restart("A")

Spec == Init /\ [][Next]_vars

---------------------------------------------------------------------------
(* SpecGroup: one scheduler process, two producers of the group of the     *)
(* consumer; no task ages, no key expires and no file disappears for the   *)
(* cleanup to see.                                                         *)

GroupTasks == {"P", "P2", "C"}

NextGroup ==
    \/ \E t \in GroupTasks : SubmitTask(t)
    \/ StartupCleanup("A", {})
    \/ Pull("A", BATCH_SIZE)
    \/ \E t \in GroupTasks : Succeed("A", t, "r1")
    \/ \E t \in GroupTasks : FailMissingFile("A", t, "x")
    \/ \E t \in GroupTasks : FailOther("A", t, "x")
    \/ \E t \in GroupTasks : FailRateLimit("A", t, "x")
    \/ EndBatch("A", {})
    \/ SkipPaused("A")
    \/ PauseDeadline("A")
    \/ Wait("A")
    \/ Cancel("J1")

SpecGroup == Init /\ [][NextGroup]_vars

---------------------------------------------------------------------------
(* SpecMP: two scheduler processes on one store *)

InitMP ==
    /\ InitStore
    /\ pc = [p \in Procs |-> "start"]
    /\ tasks = [p \in Procs |-> <<>>]
    /\ inflight = [p \in Procs |-> {}]
    /\ sinceCleanup = [p \in Procs |-> 0]
    /\ gb = [p \in Procs |-> IdleGB]
    /\ futures = [t \in TaskIds |-> NoFuture]
    /\ InitBreaker
    /\ InitKeys(<<"k1", "k2">>)

NextMP ==
    \/ \E t \in CoreTasks : SubmitTask(t)
    \/ \E p \in Procs : StartupCleanup(p, {})
    \/ \E p \in Procs : GBBegin(p, BATCH_SIZE)
    \/ \E p \in Procs : GBIterate(p)
    \/ \E p \in Procs : GBNextLoop(p)
    \/ \E p \in Procs : GBReturn(p)
    \/ \E p \in Procs, t \in CoreTasks : Succeed(p, t, "r1")
    \/ \E p \in Procs : EndBatch(p, {})
    \/ \E p \in Procs : Wait(p)

SpecMP == InitMP /\ [][NextMP]_vars

---------------------------------------------------------------------------
(* SpecLive: the scheduler loop keeps running.  Every cycle of _run_loop   *)
(* is taken, every dispatched generation call returns or raises, and time  *)
(* passes; nothing is cancelled, no key expires, the process never stops.  *)

SchedulerStep ==
    \/ \E m \in SUBSET CoreTasks : StartupCleanup("A", m)
    \/ Pull("A", BATCH_SIZE)
    \/ \E m \in SUBSET CoreTasks : EndBatch("A", m)
    \/ SkipPaused("A")
    \/ Wait("A")

Outcome(t) ==
    \/ \E r \in Results : Succeed("A", t, r)
    \/ \E e \in Errors : FailRateLimit("A", t, e)
    \/ \E e \in Errors : FailMissingFile("A", t, e)
    \/ \E e \in Errors : FailOther("A", t, e)

NextLive ==
    \/ \E t \in CoreTasks : SubmitTask(t)
    \/ Tick
    \/ PauseDeadline("A")
    \/ SchedulerStep
    \/ \E t \in CoreTasks : Outcome(t)

SpecLive ==
    /\ Init
    /\ [][NextLive]_vars
    /\ WF_vars(Tick)
    /\ WF_vars(PauseDeadline("A"))
    /\ WF_vars(SchedulerStep)
    /\ \A t \in CoreTasks : WF_vars(Outcome(t))

---------------------------------------------------------------------------
(* SpecKeys: the credential pool with two keys, under every operation of   *)
(* the manager, the expiry of its counters and the free-tier detection.    *)
(* Text requests are recorded on the first key only, and the short-window  *)
(* counter of text does not expire here.                                   *)

InitPool(ks) ==
    /\ InitStore
    /\ pc = [p \in Procs |-> "off"]
    /\ tasks = [p \in Procs |-> <<>>]
    /\ inflight = [p \in Procs |-> {}]
    /\ sinceCleanup = [p \in Procs |-> 0]
    /\ gb = [p \in Procs |-> IdleGB]
    /\ futures = [t \in TaskIds |-> NoFuture]
    /\ InitBreaker
    /\ InitKeys(ks)

PoolKeys == {"k1", "k2"}

InitKeysSpec == InitPool(<<"k1", "k2">>)

NextKeys ==
    \/ \E m \in ModelTypes : Acquire(m)
    \/ \E k \in PoolKeys : RecordUsage(k, "image")
    \/ RecordUsage("k1", "text")
    \/ \E k \in PoolKeys, b \in BOOLEAN : RecordFailure(k, "image", b)
    \/ \E k \in PoolKeys : RpmExpire(k, "image")
    \/ DailyReset
    \/ \E k \in PoolKeys : FreeTierDetected(k)
    \/ \E k \in PoolKeys, m \in ModelTypes \cup {AllModels} : ResetKey(k, m)
    \/ \E m \in ModelTypes \cup {AllModels} : ResetAllKeys(m)

SpecKeys == InitKeysSpec /\ [][NextKeys]_vars

---------------------------------------------------------------------------
(* SpecRR: one caller on a pool of three keys.  Every key taken is used    *)
(* and recorded before the next one is taken; counters expire in between.  *)

\* A key is taken and the selection is counted.
AcquireCounted(model_type) ==
    /\ ret = NoRet
    /\ picks.n["k1"] + picks.n["k2"] + picks.n["k3"] < MaxPicks
    /\ GetAvailableKey(model_type)
    /\ picks' = CountPick(model_type)
    /\ UNCHANGED <<keys, held, rpm, daily, freeTier, dailyReported>>
    /\ UNCHANGED <<rpmTtl, cooldown>>
    /\ UNCHANGED <<storeVars, schedVars>>

\* The caller records the request on the key it was given.
RecordReturned ==
    /\ ret # NoRet
    /\ ~ret.raised
    /\ rpm' = [rpm EXCEPT ![ret.key][ret.model_type] = @ + 1]
    /\ daily' = [daily EXCEPT ![ret.key][ret.model_type] = @ + 1]
    /\ rpmTtl' = [rpmTtl EXCEPT ![ret.key][ret.model_type] = RPM_TTL]
    /\ ret' = NoRet
    /\ UNCHANGED <<keys, held, lastKeyIndex, freeTier, picks, dailyReported,
                   cooldown>>
    /\ UNCHANGED <<storeVars, schedVars>>

\* The caller handles ApiKeyExhaustedError.
Exhausted ==
    /\ ret # NoRet
    /\ ret.raised
    /\ ret' = NoRet
    /\ UNCHANGED <<keys, held, lastKeyIndex, rpm, daily, freeTier, picks,
                   dailyReported, rpmTtl, cooldown>>
    /\ UNCHANGED <<storeVars, schedVars>>

InitRR == InitPool(<<"k1", "k2", "k3">>)

NextRR ==
    \/ \E m \in ModelTypes : AcquireCounted(m)
    \/ RecordReturned
    \/ Exhausted
    \/ \E k \in KeyIds, m \in ModelTypes : RpmExpire(k, m)
    \/ DailyReset

SpecRR == InitRR /\ [][NextRR]_vars

---------------------------------------------------------------------------
(* SpecDaily: image generation on two keys, with the daily-limit errors    *)
(* the API reports for the key in use.                                     *)

NextDaily ==
    \/ Acquire("image")
    \/ \E k \in PoolKeys : RecordUsage(k, "image")
    \/ \E k \in PoolKeys : DailyExhaustionReported(k)
    \/ \E k \in PoolKeys : RpmExpire(k, "image")
    \/ DailyReset

SpecDaily == InitKeysSpec /\ [][NextDaily]_vars

---------------------------------------------------------------------------
(* SpecBreaker: one scheduler process with the pause and the circuit       *)
(* breaker, on an independent task, a producer and its consumer; the       *)
(* generations succeed, run out of keys, are rate limited or miss a file.  *)

BreakerTasks == {"N", "P", "C"}

NextBreaker ==
    \/ \E t \in BreakerTasks : SubmitTask(t)
    \/ StartupCleanup("A", {})
    \/ Pull("A", BATCH_SIZE)
    \/ \E t \in BreakerTasks : Succeed("A", t, "r1")
    \/ \E t \in BreakerTasks, e \in Errors \cup ExhaustedErrors :
          FailRateLimit("A", t, e)
    \/ \E t \in BreakerTasks : FailMissingFile("A", t, "x")
    \/ EndBatch("A", {})
    \/ SkipCircuit("A")
    \/ SkipPaused("A")
    \/ PauseDeadline("A")
    \/ CircuitDeadline("A")
    \/ Wait("A")
    \/ Restart("A")

SpecBreaker == Init /\ [][NextBreaker]_vars

\* Two tasks without a consumer and no stop or crash of the process, with a
\* scheduler that keeps running and a clock that keeps advancing.
LiveTasks == {"N", "P"}

NextBreakerLive ==
    \/ \E t \in LiveTasks : SubmitTask(t)
    \/ StartupCleanup("A", {})
    \/ Pull("A", BATCH_SIZE)
    \/ \E t \in LiveTasks : Succeed("A", t, "r1")
    \/ \E t \in LiveTasks, e \in Errors \cup ExhaustedErrors :
          FailRateLimit("A", t, e)
    \/ \E t \in LiveTasks : FailMissingFile("A", t, "x")
    \/ EndBatch("A", {})
    \/ SkipCircuit("A")
    \/ SkipPaused("A")
    \/ PauseDeadline("A")
    \/ CircuitDeadline("A")
    \/ Wait("A")

SpecBreakerLive ==
    /\ Init
    /\ [][NextBreakerLive]_vars
    /\ WF_vars(StartupCleanup("A", {}))
    /\ WF_vars(Pull("A", BATCH_SIZE))
    /\ WF_vars(SkipCircuit("A"))
    /\ WF_vars(SkipPaused("A"))
    /\ WF_vars(PauseDeadline("A"))
    /\ WF_vars(CircuitDeadline("A"))
    /\ WF_vars(Wait("A"))

---------------------------------------------------------------------------
(* SpecBatch: get_batch with a small and with the default limit, on an     *)
(* independent task, two producers of one group and their consumer; the    *)
(* generations succeed or fail with a counted failure.                     *)

BatchTasks == {"N", "P", "P2", "C"}

NextBatch ==
    \/ \E t \in BatchTasks : SubmitTask(t)
    \/ StartupCleanup("A", {})
    \/ \E l \in Limits : Pull("A", l)
    \/ \E t \in BatchTasks : Succeed("A", t, "r1")
    \/ \E t \in BatchTasks : FailOther("A", t, "x")
    \/ EndBatch("A", {})
    \/ Wait("A")

SpecBatch == Init /\ [][NextBatch]_vars

---------------------------------------------------------------------------
(* Properties *)

Consumers == {t \in TaskIds : dependency_type(t) = "persona_dependent"}
Producers == {t \in TaskIds : dependency_type(t) = "persona_first"}
DepSatisfied(g) == dep[g] # NoDep /\ dep[g].completed
Queued == Range(pending) \cup Range(retry)
RetryCount(t) == taskData[t].retry_count

\* The step fails producer p for good through mark_failed: p leaves processing
\* for failed and keeps its task hash (the cleanup deletes the hash).
ProducerFailsPermanently(p) ==
    /\ p \in Producers
    /\ p \in processing /\ p \notin failed
    /\ p \in failed' /\ HasTask(taskData', p)

\* C1: get_batch never moves a consumer into processing while the dependency
\* record of its group is missing or not completed, whether the consumer is
\* taken from pending or from retry.
C1_ConsumerPulledOnlyWhenSatisfied ==
    [][\A t \in Consumers :
          (t \notin processing /\ t \in processing')
              => DepSatisfied(dependency_group(t))]_vars

\* A consumer that failed once has been pulled again, from retry.
C1_Witness ==
    /\ "C" \in inflight["A"]
    /\ HasTask(taskData, "C")
    /\ RetryCount("C") >= 1

\* C2: when mark_failed fails a producer for good, every consumer of its group
\* that is in pending or retry is in failed after that call and in no queue;
\* a consumer in failed stays there and never enters a queue or processing.
C2_CascadeFailsConsumers ==
    [][\A c \in Consumers :
          /\ \A p \in Producers :
                (/\ ProducerFailsPermanently(p)
                 /\ dependency_group(p) = dependency_group(c)
                 /\ HasTask(taskData, c)
                 /\ c \in Queued)
                    => (/\ c \in failed'
                        /\ c \notin Range(pending') \cup Range(retry')
                        /\ c \notin processing')
          /\ (c \in failed /\ c \notin Queued \cup processing)
                => (/\ c \in failed'
                    /\ c \notin Range(pending') \cup Range(retry')
                    /\ c \notin processing')]_vars

\* The consumer had failed once, sat in retry and was failed by the cascade of
\* the second producer.
C2_Witness ==
    /\ "C" \in failed
    /\ HasTask(taskData, "C")
    /\ RetryCount("C") >= 1
    /\ taskData["C"].last_error = DependencyError("P2", "x")

\* C3: no task id is handed to two get_batch calls: no task is in flight in two
\* scheduler processes at once.
C3_NoDoubleAssignment == inflight["A"] \cap inflight["B"] = {}

\* The number of the five membership sets that hold t
Memberships(t) ==
    Cardinality({k \in 1..5 :
        \/ k = 1 /\ t \in Range(pending)
        \/ k = 2 /\ t \in processing
        \/ k = 3 /\ t \in Range(retry)
        \/ k = 4 /\ t \in completed
        \/ k = 5 /\ t \in failed})

\* C4: after any sequence of store operations no task id is in more than one
\* of pending, processing, retry, completed, failed.
C4_AtMostOneState == \A t \in TaskIds : Memberships(t) <= 1

\* The producer is done and the consumer was removed by the cleanup.
C4_Witness ==
    /\ "P" \in completed
    /\ "C" \in failed
    /\ ~HasTask(taskData, "C")
    /\ HasTask(taskData, "P")

\* C5: every submitted task is in at least one of the five sets.
C5_NoTaskDropped == \A t \in Submitted : Memberships(t) >= 1

\* C6: every submitted task eventually is in completed or in failed.
C6_EveryTaskTerminates ==
    \A t \in CoreTasks : (t \in Submitted) ~> (t \in completed \cup failed)

\* The step applies a failure that is neither rate-limited nor permanent to t.
CountedFailure(t) ==
    \/ FailTimeout("A", t)
    \/ \E e \in Errors : FailOther("A", t, e)

\* C7: retry_count changes only in mark_failed with is_rate_limit = False and
\* permanent = False, by exactly 1; a rate-limited mark_failed leaves it
\* unchanged and puts the task in retry, not in failed.
C7_RetryCountOnlyOnCountedFailure ==
    [][\A t \in CoreTasks :
          /\ (/\ HasTask(taskData, t) /\ HasTask(taskData', t)
              /\ RetryCount(t)' # RetryCount(t))
                => (CountedFailure(t) /\ RetryCount(t)' = RetryCount(t) + 1)
          /\ (/\ HasTask(taskData, t)
              /\ \E e \in Errors : FailRateLimit("A", t, e))
                => (/\ RetryCount(t)' = RetryCount(t)
                    /\ t \in Range(retry')
                    /\ t \notin failed')]_vars

\* A task that failed rate-limited only: in retry with retry_count 0.
C7_Witness ==
    /\ "P" \in Range(retry)
    /\ HasTask(taskData, "P")
    /\ RetryCount("P") = 0
    /\ taskData["P"].last_error = "x"

\* The k-th counted failure of a task: retry while k < MAX_RETRIES, failed
\* with retry_count = MAX_RETRIES at k = MAX_RETRIES.
CountedFailureEffect(t) ==
    (HasTask(taskData, t) /\ CountedFailure(t))
        => /\ RetryCount(t)' = RetryCount(t) + 1
           /\ RetryCount(t)' <= MAX_RETRIES
           /\ RetryCount(t)' < MAX_RETRIES
                 => (t \in Range(retry') /\ t \notin failed')
           /\ RetryCount(t)' = MAX_RETRIES
                 => (t \in failed' /\ t \notin Range(retry'))

\* t enters failed with its retries used up, by a permanent mark_failed, or
\* through the cleanup (which deletes its task hash).
FailedForAStatedReason(t) ==
    \/ HasTask(taskData', t) /\ RetryCount(t)' = MAX_RETRIES
    \/ \E e \in Errors : FailMissingFile("A", t, e)
    \/ ~HasTask(taskData', t)

\* t is a consumer and the step fails a producer of its group for good.
FailedByCascade(t) ==
    /\ t \in Consumers
    /\ \E p \in Producers :
          ProducerFailsPermanently(p) /\ dependency_group(p) = dependency_group(t)

\* C8 as claimed: a task never enters failed with retry_count < MAX_RETRIES
\* unless permanent = True or reaped.
C8_FailedOnlyAtMaxRetries ==
    [][\A t \in CoreTasks :
          /\ CountedFailureEffect(t)
          /\ (t \notin failed /\ t \in failed') => FailedForAStatedReason(t)]_vars

\* C8 amended: ... unless permanent = True, reaped, or failed by the cascade
\* of a permanently failed producer of its dependency group.
C8_FailedAtMaxRetriesOrCascade ==
    [][\A t \in CoreTasks :
          /\ CountedFailureEffect(t)
          /\ (t \notin failed /\ t \in failed')
                => (FailedForAStatedReason(t) \/ FailedByCascade(t))]_vars

\* The producer used up its retries and took the waiting consumer with it.
C8_Witness ==
    /\ "P" \in failed /\ HasTask(taskData, "P")
    /\ RetryCount("P") = MAX_RETRIES
    /\ "C" \in failed /\ HasTask(taskData, "C")
    /\ RetryCount("C") < MAX_RETRIES
    /\ \E e \in Errors : taskData["C"].last_error = DependencyError("P", e)

\* The scenario's first pull: P and C are queued in pending, nothing else is,
\* and P has not completed.
ScenarioBothPending ==
    /\ Range(pending) = {"P", "C"} /\ retry = <<>>
    /\ HasTask(taskData, "P") /\ HasTask(taskData, "C")
    /\ ~DepSatisfied("g")

\* The scenario's second pull: P has completed and C alone is queued.
ScenarioProducerDone ==
    /\ "P" \in completed /\ DepSatisfied("g")
    /\ pending = <<"C">> /\ retry = <<>>
    /\ HasTask(taskData, "C")

\* C9: with P and C submitted, get_batch returns P and not C; mark_complete(P, r)
\* records r; the next get_batch returns C, and the returned and the stored C
\* carry r as persona_reference_path.
C9_ProducerThenConsumer ==
    [][/\ \A l \in Limits :
             (ScenarioBothPending /\ Pull("A", l))
                 => /\ TaskIdsOf(tasks'["A"]) = {"P"}
                    /\ "C" \in Range(pending')
       /\ \A r \in Results :
             (HasTask(taskData, "P") /\ Succeed("A", "P", r))
                 => (DepSatisfied("g")' /\ dep'["g"].result_path = r)
       /\ \A l \in Limits :
             (ScenarioProducerDone /\ Pull("A", l))
                 => /\ tasks'["A"] = <<[task_id |-> "C",
                          persona_reference_path |-> dep["g"].result_path]>>
                    /\ taskData'["C"].persona_reference_path = dep["g"].result_path
                    /\ "C" \in processing']_vars

\* C was returned carrying the result "r2" of the completed P.
C9_Witness ==
    /\ "P" \in completed
    /\ tasks["A"] = <<[task_id |-> "C", persona_reference_path |-> "r2"]>>
    /\ "C" \in inflight["A"]

\* C10: a consumer whose producer never completes eventually is in failed.
C10_BlockedConsumerFails ==
    \A c \in Consumers :
        (c \in Range(pending) /\ ~DepSatisfied(dependency_group(c)))
            ~> (c \in failed \/ DepSatisfied(dependency_group(c)))

---------------------------------------------------------------------------
(* Properties of the credential pool *)

Limit(m) == IF m = "text" THEN TEXT_RPM ELSE IMAGE_RPM
DailyLimit(m) == IF m = "text" THEN TEXT_DAILY ELSE IMAGE_DAILY

\* The stored state of key k allows a request of model type m.
Usable(k, m) ==
    /\ rpm[k][m] < Limit(m)
    /\ daily[k][m] < DailyLimit(m)
    /\ ~freeTier[k][m]

Returned(m) == Acquire(m) /\ ~ret'.raised

\* C11: get_available_key never returns a key whose short-window counter is
\* at or above its limit, whose daily counter is at or above the daily limit,
\* or that is flagged free tier for the capability, at the moment of the call.
C11_ReturnedKeyIsUsable ==
    [][\A m \in ModelTypes :
          Returned(m) => /\ rpm[ret'.key][m] < Limit(m)
                         /\ daily[ret'.key][m] < DailyLimit(m)
                         /\ ~freeTier[ret'.key][m]]_vars

\* A key was returned past a key that is within its short-window limit but
\* at its daily limit.
C11_Witness ==
    /\ ret = [model_type |-> "image", key |-> "k2", raised |-> FALSE]
    /\ rpm["k1"]["image"] < IMAGE_RPM
    /\ daily["k1"]["image"] >= IMAGE_DAILY
    /\ ~freeTier["k1"]["image"]
    /\ lastKeyIndex = 1

\* The key at position i of the scan that starts after the last selected key.
ScanKey(i) == keys[((lastKeyIndex + 1 + i) % Len(keys)) + 1]

\* C12: get_available_key returns the first usable key in cyclic index order
\* starting at (last-selected index + 1) and records that index as
\* last-selected; it raises ApiKeyExhaustedError exactly when no configured key
\* is usable, and then leaves the last-selected index and all counters
\* unchanged.
C12_FirstUsableInCyclicOrder ==
    [][\A m \in ModelTypes :
          Acquire(m) =>
             IF \E i \in 0..(Len(keys) - 1) : Usable(ScanKey(i), m)
             THEN /\ ~ret'.raised
                  /\ \E i \in 0..(Len(keys) - 1) :
                        /\ Usable(ScanKey(i), m)
                        /\ \A j \in 0..(i - 1) : ~Usable(ScanKey(j), m)
                        /\ ret'.key = ScanKey(i)
                        /\ lastKeyIndex' = (lastKeyIndex + 1 + i) % Len(keys)
             ELSE /\ ret'.raised
                  /\ UNCHANGED <<lastKeyIndex, rpm, daily, freeTier>>]_vars

\* A call raised after the second key had been selected: the first key is
\* flagged free tier and the second is at its short-window limit.
C12_Witness ==
    /\ ret = [model_type |-> "image", key |-> "", raised |-> TRUE]
    /\ lastKeyIndex = 1
    /\ freeTier["k1"]["image"]
    /\ rpm["k2"]["image"] >= IMAGE_RPM

C14_RecordingEffects ==
    [][\A k \in PoolKeys, m \in ModelTypes :
          /\ RecordUsage(k, m) =>
                /\ rpm'[k][m] = rpm[k][m] + 1
                /\ daily'[k][m] = daily[k][m] + 1
          /\ RecordFailure(k, m, TRUE) =>
                /\ rpm'[k][m] = Limit(m)
                /\ daily' = daily
          /\ RecordFailure(k, m, FALSE) =>
                /\ rpm' = rpm
                /\ daily' = daily]_vars

\* The first key was recorded past its limit, the second key is at its
\* short-window limit without any request counted today.
C14_Witness ==
    /\ rpm["k1"]["image"] > IMAGE_RPM
    /\ daily["k1"]["image"] > IMAGE_DAILY
    /\ rpm["k2"]["image"] = IMAGE_RPM
    /\ daily["k2"]["image"] = 0

\* C15: when every configured key has reported daily exhaustion for image,
\* get_available_key('image') raises ApiKeyExhaustedError until the next
\* midnight-Pacific boundary, also after the 60-second window has expired, and
\* succeeds again after that boundary.
C15_RaisesWhileDailyExhausted ==
    [][(dailyReported = Range(keys) /\ Acquire("image")) => ret'.raised]_vars

\* C16: once a key is marked free tier for a capability, get_available_key
\* never returns it for that capability again: the flag is not cleared by the
\* expiry of a counter, by the daily reset, or by reset_key / reset_all_keys.
C16_FreeTierIsPermanent ==
    [][\A k \in PoolKeys, m \in ModelTypes :
          freeTier[k][m] =>
             /\ freeTier'[k][m]
             /\ Acquire(m) => (ret'.raised \/ ret'.key # k)]_vars

\* The first key is flagged free tier with both counters cleared, and a call
\* whose turn was the first key returned the second.
C16_Witness ==
    /\ freeTier["k1"]["image"]
    /\ rpm["k1"]["image"] = 0
    /\ daily["k1"]["image"] = 0
    /\ daily["k2"]["image"] > 0
    /\ ret = [model_type |-> "image", key |-> "k2", raised |-> FALSE]

---------------------------------------------------------------------------
(* Properties of the pause and the circuit breaker *)

\* The cycle of process p calls get_batch.
CallsGetBatch(p) == pc[p] = "loop" /\ pc'[p] \in {"collect", "wait"}

\* C17, as claimed: the loop calls get_batch only in a cycle where the circuit
\* is closed and the pause deadline is met, and while the circuit is open no
\* task leaves pending or retry through this scheduler.
C17_NothingLeavesQueuesWhileOpen ==
    [][/\ CallsGetBatch("A") => ~circuitOpenUntil["A"] /\ ~pauseUntil["A"]
       /\ circuitOpenUntil["A"] =>
             /\ Range(pending) \subseteq Range(pending')
             /\ Range(retry) \subseteq Range(retry')]_vars

\* C17, amended: the loop calls get_batch only in a cycle where the circuit is
\* closed and the pause deadline is met, and while the circuit is open or the
\* pause deadline is ahead no task enters processing.
C17_NoDispatchWhileOpenOrPaused ==
    [][/\ CallsGetBatch("A") => ~circuitOpenUntil["A"] /\ ~pauseUntil["A"]
       /\ (circuitOpenUntil["A"] \/ pauseUntil["A"]) =>
             processing' \subseteq processing]_vars

\* The circuit is open, the cycle was skipped, and a task that no dependency
\* holds back waits in retry.
C17_Witness ==
    /\ circuitOpenUntil["A"]
    /\ pc["A"] = "sleep"
    /\ "N" \in Range(retry)
    /\ "C" \in failed

\* An all-keys-exhausted outcome of process p is recorded.
ExhaustedOutcome(p) ==
    \E t \in BreakerTasks, e \in ExhaustedErrors : FailRateLimit(p, t, e)

Opens(p) == ~circuitOpenUntil[p] /\ circuitOpenUntil'[p]

\* C18, as claimed: the circuit opens when CIRCUIT_BREAKER_THRESHOLD
\* consecutive batches ended in all-keys-exhausted, and not before: the
\* counter advances per batch, so a single batch with several exhausted tasks
\* never opens the circuit.
C18_OpensAfterThresholdBatches ==
    [][Opens("A") => streak'["A"].n >= CIRCUIT_BREAKER_THRESHOLD]_vars

\* C18, amended: the circuit opens at the outcome that is the
\* CIRCUIT_BREAKER_THRESHOLD-th all-keys-exhausted outcome recorded without a
\* successful generation in between, and not before: the counter advances per
\* exhausted task outcome.
C18_OpensAfterThresholdOutcomes ==
    [][/\ Opens("A") =>
             /\ ExhaustedOutcome("A")
             /\ consecutiveAllKeyFailures'["A"] >= CIRCUIT_BREAKER_THRESHOLD
       /\ (/\ ExhaustedOutcome("A")
           /\ consecutiveAllKeyFailures["A"] + 1 >= CIRCUIT_BREAKER_THRESHOLD)
             => circuitOpenUntil'["A"]
       /\ consecutiveAllKeyFailures'["A"] > consecutiveAllKeyFailures["A"] =>
             /\ ExhaustedOutcome("A")
             /\ consecutiveAllKeyFailures'["A"] =
                   consecutiveAllKeyFailures["A"] + 1]_vars

\* The circuit is open at the third exhausted outcome, in the second batch
\* with such an outcome.
C18_Witness ==
    /\ circuitOpenUntil["A"]
    /\ consecutiveAllKeyFailures["A"] = CIRCUIT_BREAKER_THRESHOLD
    /\ streak["A"].n = 2
    /\ pc["A"] = "collect"

\* C19: any single successful generation resets the counter to 0 and closes
\* the circuit: after a success is recorded the circuit is not open in the
\* next cycle, whatever exhaustion outcomes were recorded before.  The counter
\* is 0 at the top of a cycle exactly when no exhausted outcome followed the
\* latest success.
C19_SuccessClosesCircuit ==
    (pc["A"] = "loop" /\ consecutiveAllKeyFailures["A"] = 0) =>
        ~circuitOpenUntil["A"]

\* C20: the scheduler never stays in CircuitOpen or Paused forever: once the
\* cooldown and the pause deadline have elapsed and the process is not
\* stopped, a later cycle calls get_batch again.  Every skipped cycle is
\* followed by a cycle that has called get_batch.
C20_PullingResumes ==
    (pc["A"] = "sleep") ~> (pc["A"] \in {"collect", "wait"})

\* A cycle skipped with the circuit open and the pause deadline ahead.
C20_Witness ==
    /\ pc["A"] = "sleep"
    /\ circuitOpenUntil["A"]
    /\ pauseUntil["A"]
    /\ retry # <<>>

\* Cancellation of either job between the steps of one scheduler.
CancelTasks == {"P", "C", "N"}

NextCancel ==
    \/ \E t \in CancelTasks : SubmitTask(t)
    \/ StartupCleanup("A", {})
    \/ \E l \in Limits : Pull("A", l)
    \/ \E t \in CancelTasks : Succeed("A", t, "r1")
    \/ \E t \in CancelTasks : FailOther("A", t, "x")
    \/ EndBatch("A", {})
    \/ Wait("A")
    \/ \E j \in Jobs : Cancel(j)

SpecCancel == Init /\ [][NextCancel]_vars

\* One scheduler whose outcomes come from the worker threads and the pool.
NextGen ==
    \/ \E t \in CoreTasks : SubmitTask(t)
    \/ StartupCleanup("A", {})
    \/ Pull("A", BATCH_SIZE)
    \/ \E t \in CoreTasks, missing \in BOOLEAN : GenValidate("A", t, missing)
    \/ \E t \in CoreTasks, signal \in Signals : GenAttempt("A", t, signal)
    \/ \E t \in CoreTasks : CollectFuture("A", t)
    \/ EndBatch("A", {})
    \/ SkipCircuit("A")
    \/ SkipPaused("A")
    \/ PauseDeadline("A")
    \/ CircuitDeadline("A")
    \/ Wait("A")
    \/ RpmExpire("k1", "image")

SpecGen == Init /\ [][NextGen]_vars

\* The pool of two keys on a clock of half-minutes: image requests are taken,
\* recorded and rate-limited while the rpm counters run out by their TTL.
NextCooldown ==
    \/ Acquire("image")
    \/ \E k \in PoolKeys : RecordUsage(k, "image")
    \/ \E k \in PoolKeys, b \in BOOLEAN : RecordFailureTimed(k, "image", b, TRUE)
    \/ HalfMinute
    \/ DailyReset

SpecCooldown == InitKeysSpec /\ [][NextCooldown]_vars

\* The worker threads of one batch on the pool of two keys: each takes a key,
\* generates, and records the request on its key, while the half-minutes pass.
NextWorkers ==
    \/ WorkerGetClient
    \/ \E k \in PoolKeys : RecordUsageBy(k, "image", TRUE)
    \/ HalfMinute
    \/ DailyReset

SpecWorkers == InitKeysSpec /\ [][NextWorkers]_vars

\* A scheduler that is stopped and started again while the hours pass.  The
\* loop, the clock and the outcomes are fair; a restart need not happen.
NextRecover ==
    \/ \E t \in LiveTasks : SubmitTask(t)
    \/ Tick
    \/ StartupCleanup("A", {})
    \/ Pull("A", BATCH_SIZE)
    \/ \E t \in LiveTasks : Succeed("A", t, "r1")
    \/ EndBatch("A", {})
    \/ Wait("A")
    \/ Restart("A")

SpecRecover ==
    /\ Init
    /\ [][NextRecover]_vars
    /\ WF_vars(Tick)
    /\ WF_vars(StartupCleanup("A", {}))
    /\ WF_vars(Pull("A", BATCH_SIZE))
    /\ \A t \in LiveTasks : WF_vars(Succeed("A", t, "r1"))
    /\ WF_vars(EndBatch("A", {}))
    /\ WF_vars(Wait("A"))

---------------------------------------------------------------------------
(* Properties of the outcomes, of get_batch and of the job bookkeeping *)

\* C21: when a task outcome of a batch is all-keys-exhausted
\* (ApiKeyExhaustedError), the scheduler enters Paused (the deadline is
\* RATE_LIMIT_PAUSE_DEFAULT + 5 seconds after the outcome, ahead until the
\* clock reaches it) and the task is failed as rate-limited: it leaves
\* processing for retry with its retry_count unchanged.
C21_ExhaustionPausesAndRequeues ==
    [][\A t \in BreakerTasks, e \in ExhaustedErrors :
          FailRateLimit("A", t, e) =>
             /\ pauseUntil'["A"]
             /\ t \notin processing'
             /\ t \in Range(retry')
             /\ t \notin failed'
             /\ taskData'[t].retry_count = taskData[t].retry_count
             /\ taskData'[t].last_error = e]_vars

\* After its first exhausted outcome the independent task waits in retry,
\* the loop is paused and the circuit is still closed.
C21_Witness ==
    /\ pauseUntil["A"]
    /\ ~circuitOpenUntil["A"]
    /\ "N" \in Range(retry)
    /\ taskData["N"] # NoTask
    /\ taskData["N"].last_error \in ExhaustedErrors
    /\ consecutiveAllKeyFailures["A"] = 1

\* Task t could be processed now: its hash exists and, for a consumer, the
\* dependency record of its group is completed.
Eligible(t) ==
    /\ taskData[t] # NoTask
    /\ t \in Consumers => DepSatisfied(dependency_group(t))

\* The position of t in the sorted set q (0: not a member)
Pos(q, t) == IF t \in Range(q) THEN CHOOSE i \in 1..Len(q) : q[i] = t ELSE 0

\* The ids of the list get_batch returned to process p in this step
Batch(p) == [i \in 1..Len(tasks'[p]) |-> tasks'[p][i].task_id]

\* C22: the list returned by one get_batch(limit) call consists of eligible
\* retry tasks in ascending retry-enqueue order followed by eligible pending
\* tasks in ascending enqueue order; a pending task is included only if every
\* eligible retry task is included, and within one state an eligible task is
\* never passed over in favour of a later-enqueued task of that state.
C22_RetryFirstThenPendingFifo ==
    [][\A l \in Limits :
          Pull("A", l) =>
             LET b == Batch("A")
                 in == Range(b)
             IN /\ \A i \in 1..Len(b) :
                      b[i] \in Queued /\ Eligible(b[i])
                /\ \A i \in 1..Len(b), k \in 1..Len(b) :
                      i < k =>
                         /\ ~(b[i] \in Range(pending) /\ b[k] \in Range(retry))
                         /\ (b[i] \in Range(retry) /\ b[k] \in Range(retry))
                               => Pos(retry, b[i]) < Pos(retry, b[k])
                         /\ (b[i] \in Range(pending) /\ b[k] \in Range(pending))
                               => Pos(pending, b[i]) < Pos(pending, b[k])
                /\ (in \cap Range(pending) # {}) =>
                      \A t \in Range(retry) : Eligible(t) => t \in in
                /\ \A t \in in, u \in TaskIds :
                      /\ (t \in Range(retry) /\ u \in Range(retry)
                          /\ Pos(retry, u) < Pos(retry, t) /\ Eligible(u))
                            => u \in in
                      /\ (t \in Range(pending) /\ u \in Range(pending)
                          /\ Pos(pending, u) < Pos(pending, t) /\ Eligible(u))
                            => u \in in]_vars

\* The number of tasks of job j that are members of the set or queue ids.
InSet(j, ids) == Cardinality(jobTasks[j] \cap ids)

\* C23: at every call, the counts get_job_status returns for a job equal the
\* numbers of that job's task ids that are currently in pending, processing,
\* retry, completed and failed.
C23_StatusCountsMatchSets ==
    \A j \in Jobs :
        /\ GetJobStatus(j).pending = InSet(j, Range(pending))
        /\ GetJobStatus(j).processing = InSet(j, processing)
        /\ GetJobStatus(j).retry = InSet(j, Range(retry))
        /\ GetJobStatus(j).completed = InSet(j, completed)
        /\ GetJobStatus(j).failed = InSet(j, failed)

\* C24: get_job_status reports is_complete exactly when no task of the job is
\* in pending, processing or retry.
C24_IsCompleteIffNothingUnfinished ==
    \A j \in Jobs :
        GetJobStatus(j).is_complete <=>
            jobTasks[j] \cap (Range(pending) \cup processing \cup Range(retry)) = {}

Unfinished == Queued \cup processing

\* C26: every task id that a run of _cleanup_all_queues (at startup or after
\* a batch) removes from pending, retry or processing is a member of failed
\* when the run returns.
C26_ReapedTasksAreFailed ==
    [][(\E m \in SUBSET TaskIds : StartupCleanup("A", m) \/ EndBatch("A", m))
          => \A t \in Unfinished : t \notin Unfinished' => t \in failed']_vars

\* C27: a dependency record changes state at most once, from unsatisfied to
\* satisfied: once its completed field is true, no step makes it unsatisfied
\* again or changes its result.
C27_SatisfiedRecordIsFinal ==
    [][\A g \in Groups :
          DepSatisfied(g) =>
             /\ DepSatisfied(g)'
             /\ dep'[g].result_path = dep[g].result_path]_vars

\* C28: within one scheduler process, get_batch is not called for the next
\* batch while a task returned for the previous batch still waits for its
\* outcome (mark_complete or mark_failed) to be applied.
C28_NextBatchAfterAllOutcomes ==
    [][\A l \in Limits : Pull("A", l) => inflight["A"] = {}]_vars

\* A second batch is being collected: a task of an earlier batch is completed
\* and another one was counted as failed, and a task is in flight.
C28_Witness ==
    /\ pc["A"] = "collect"
    /\ inflight["A"] # {}
    /\ "P" \in completed
    /\ taskData["C"] # NoTask /\ taskData["C"].retry_count > 0

\* C29: a dispatched task one of whose input files is missing is moved to
\* failed when its future is collected, with its retry_count unchanged and
\* without entering retry, and no key was taken and the generation function
\* was not called for it.
C29_MissingInputFailsAtOnce ==
    [][\A t \in CoreTasks :
          (CollectFuture("A", t) /\ futures[t].exc = "FileNotFoundError") =>
             /\ t \in failed'
             /\ t \notin Range(retry') \cup Range(pending') \cup processing'
             /\ taskData'[t].retry_count = taskData[t].retry_count
             /\ futures[t].clients = 0
             /\ futures[t].attempt = 0]_vars

\* The producer failed for a missing input in its first dispatch, before any
\* key of the pool was handed out.
C29_Witness ==
    /\ "P" \in failed
    /\ "P" \notin inflight["A"]
    /\ futures["P"].exc = "FileNotFoundError"
    /\ taskData["P"].retry_count = 0
    /\ lastKeyIndex = -1

\* The failure a finished future carries is a rate-limit or quota signal: the
\* generation function's last report was one, or the pool had no key left.
QuotaSignal(f) ==
    \/ f.signal \in {"free_tier", "rate", "daily"}
    \/ f.signal = "" /\ f.exc = "ApiKeyExhaustedError"

\* C30: each generation failure is applied by its class: after a rate-limit
\* or quota signal (short-window or daily) the task goes to retry with its
\* retry_count unchanged; after a timeout or any other exception the task's
\* retry_count is one higher.
C30_FailuresAppliedByClass ==
    [][\A t \in CoreTasks :
          (CollectFuture("A", t)
              /\ futures[t].exc \notin {"", "FileNotFoundError"}) =>
             IF QuotaSignal(futures[t])
             THEN /\ taskData'[t].retry_count = taskData[t].retry_count
                  /\ t \in Range(retry')
             ELSE taskData'[t].retry_count = taskData[t].retry_count + 1]_vars

---------------------------------------------------------------------------
(* Properties of recovery, of the cleanup schedule, of the key cooldown,   *)
(* of a dispatch and of the cascade                                        *)

\* C31: a task that is in processing when its scheduler process has exited
\* and a new one starts is eventually in failed, also when no other task is
\* submitted.
C31_AbandonedTaskIsReaped ==
    \A t \in LiveTasks :
        (t \in processing /\ pc["A"] = "start") ~> (t \in failed)

\* The task has its hash and is older than the threshold of the queue it is in.
StaleQueued(t) ==
    /\ HasTask(taskData, t)
    /\ \/ t \in Range(pending) /\ age[t] > STALE_PENDING_HOURS
       \/ t \in Range(retry) /\ age[t] > STALE_RETRY_HOURS
       \/ t \in processing /\ age[t] > STALE_PROCESSING_HOURS

\* The step removes a task as the cleanup does: hash deleted, id into failed.
RemovedCompletely(t) ==
    HasTask(taskData, t) /\ ~HasTask(taskData', t) /\ t \notin failed /\ t \in failed'

\* C32: the cleanup runs once when the scheduler starts, before its first
\* get_batch, and after that at the end of a batch exactly when
\* CLEANUP_INTERVAL batches were processed since the last periodic cleanup:
\* the step that leaves the start removes every stale task and is not
\* repeated before the process is started anew; the end of a batch removes every stale task when it is the
\* CLEANUP_INTERVAL-th since the last cleanup and leaves the store alone
\* otherwise; no other step removes a task the way the cleanup does.
C32_CleanupAtStartupAndEveryInterval ==
    [][/\ pc["A"] = "start" /\ pc'["A"] # "start" =>
             /\ pc'["A"] = "loop"
             /\ \A t \in TaskIds : ~StaleQueued(t)'
       /\ (\E l \in Limits : Pull("A", l)) => pc["A"] # "start"
       /\ pc["A"] # "start" /\ pc'["A"] = "start" => Restart("A")
       /\ pc["A"] = "collect" /\ pc'["A"] = "wait" =>
             IF sinceCleanup["A"] + 1 >= CLEANUP_INTERVAL
             THEN /\ sinceCleanup'["A"] = 0
                  /\ \A t \in TaskIds : ~StaleQueued(t)'
             ELSE /\ sinceCleanup'["A"] = sinceCleanup["A"] + 1
                  /\ UNCHANGED storeVars
       /\ (\E t \in TaskIds : RemovedCompletely(t)) =>
             \/ pc["A"] = "start" /\ pc'["A"] = "loop"
             \/ /\ pc["A"] = "collect" /\ pc'["A"] = "wait"
                /\ sinceCleanup["A"] + 1 >= CLEANUP_INTERVAL]_vars

\* The periodic cleanup has just run: a batch of this process has ended (the
\* pause it caused is still on) with the counter back at 0, and a task was
\* removed.
C32_Witness ==
    /\ pc["A"] = "wait"
    /\ pauseUntil["A"]
    /\ sinceCleanup["A"] = 0
    /\ \E t \in CoreTasks : t \in failed /\ ~HasTask(taskData, t)

\* C33: a key on which record_failure(is_rate_limit=True) was called is not
\* available for image requests during the 60 seconds that follow, and when
\* the 60 seconds have elapsed it is available again provided its daily
\* quota allows, whatever record_usage calls were made for it in between.
C33_QuarantineLastsFixedCooldown ==
    [][\A k \in PoolKeys :
          /\ cooldown[k]["image"] > 0 => ~IsAvailable(k, "image")
          /\ (/\ HalfMinute
              /\ cooldown[k]["image"] = 1
              /\ daily[k]["image"] < IMAGE_DAILY
              /\ ~freeTier[k]["image"]) => IsAvailable(k, "image")']_vars

\* C34: one get_batch(limit) call returns exactly min(limit, E) tasks, where E
\* is the number of eligible tasks in retry and pending when it is called: a
\* pull with spare capacity leaves no eligible task behind, however many
\* blocked consumers or orphaned entries are queued before it.
C34_BatchTakesEveryEligibleTask ==
    [][\A l \in Limits :
          Pull("A", l) =>
             LET E == Cardinality({t \in Queued : Eligible(t)})
             IN Len(tasks'["A"]) = IF l < E THEN l ELSE E]_vars

\* C35: within one dispatch the generation function is called at most
\* len(keys) times; after a rate-limit, quota or free-tier failure of a call
\* that was not the last one the dispatch goes on to take another key, after
\* such a failure of call number len(keys) it ends with ApiKeyExhaustedError,
\* after any other failure it ends at once with that failure, and after a
\* successful call it ends with the result.
C35_DispatchTriesEachKeyAtMostOnce ==
    [][\A t \in CoreTasks, signal \in Signals :
          (GenAttempt("A", t, signal) /\ ~ret'.raised) =>
             /\ futures'[t].attempt = futures[t].attempt + 1
             /\ futures'[t].attempt <= Len(keys)
             /\ CASE signal = "ok" ->
                       futures'[t].stage = "done" /\ futures'[t].exc = ""
                  [] signal \in {"free_tier", "rate", "daily"} ->
                       IF futures'[t].attempt < Len(keys)
                       THEN futures'[t].stage = "running"
                       ELSE /\ futures'[t].stage = "done"
                            /\ futures'[t].exc = "ApiKeyExhaustedError"
                  [] OTHER ->
                       /\ futures'[t].stage = "done"
                       /\ futures'[t].exc \notin {"", "ApiKeyExhaustedError"}]_vars

\* C36: once cancel_job(J) has returned and until a task of J is submitted
\* again, no get_batch call returns a task of J: the tasks of J that were in
\* processing have their outcome applied and are not dispatched again.
C36_CancelledJobNotDispatchedAgain ==
    [][\A l \in Limits :
          Pull("A", l) =>
             \A i \in 1..Len(tasks'["A"]) :
                job_id(tasks'["A"][i].task_id) \notin cancelled]_vars

\* C36 as the code has it: once cancel_job(J) has returned and until a task
\* of J is submitted again, a task of J that a get_batch call returns is taken
\* from the retry queue, where mark_failed put it when the failure of its
\* dispatch was applied, and never from pending.
C36_CancelledJobReturnsOnlyRequeuedTasks ==
    [][\A l \in Limits :
          Pull("A", l) =>
             \A i \in 1..Len(tasks'["A"]) :
                LET t == tasks'["A"][i].task_id
                IN job_id(t) \in cancelled =>
                      t \in Range(retry) /\ t \notin Range(pending)]_vars

\* Job J1, of P and C only, was cancelled while P was in processing: C is in no
\* set, the failure of P was applied after that (the stored counts show no
\* pending task and one in retry), and P is in processing again.
C36_Witness ==
    /\ "J1" \in cancelled
    /\ jobTasks["J1"] = {"P", "C"}
    /\ "C" \notin Queued \cup processing \cup completed \cup failed
    /\ jobStatus["J1"] # NoStatus
    /\ jobStatus["J1"].pending = 0 /\ jobStatus["J1"].retry = 1
    /\ "P" \in processing

\* The step applies the outcome of the dispatch of t in the running batch.
OutcomeApplied(t) ==
    /\ t \in inflight["A"]
    /\ t \notin inflight'["A"]
    /\ pc'["A"] = "collect"

\* C37: each task dispatched in a batch gets one store outcome per dispatch:
\* the step that applies it is a mark_complete or a mark_failed and never
\* both (the task leaves processing for completed, or for retry or failed),
\* it applies the outcome of no other task, a task with its outcome applied
\* gets no second one in that batch, and a task of the batch that is in
\* completed is not placed in retry or failed while the batch runs.
C37_OneOutcomePerDispatch ==
    [][\A t \in CoreTasks :
          /\ OutcomeApplied(t) =>
                /\ ~(t \in completed' /\ t \in Range(retry') \cup failed')
                /\ t \notin Range(retry') \cap failed'
                /\ HasTask(taskData, t) =>
                      /\ t \notin processing'
                      /\ t \in completed' \cup Range(retry') \cup failed'
                /\ \A u \in inflight["A"] \ {t} : u \in inflight'["A"]
          /\ (t \in TaskIdsOf(tasks["A"]) /\ t \notin inflight["A"]) =>
                /\ t \in inflight'["A"] => \E l \in Limits : Pull("A", l)
                /\ taskData'[t] # NoTask /\ taskData[t] # NoTask =>
                      taskData'[t].retry_count = taskData[t].retry_count
                /\ t \in completed =>
                      t \in completed' /\ t \notin Range(retry') \cup failed']_vars

\* The batch of the producer is still open, its one outcome was a success:
\* the producer is in completed and nowhere else, the consumer was not in it.
C37_Witness ==
    /\ pc["A"] = "collect"
    /\ "P" \in TaskIdsOf(tasks["A"])
    /\ inflight["A"] = {}
    /\ "P" \in completed
    /\ "P" \notin Queued \cup processing \cup failed
    /\ "C" \in Range(pending)

\* C38: with up to MAX_WORKERS worker threads taking keys and recording
\* their requests concurrently, the stored rpm counter of a key never exceeds
\* the rpm limit: no key serves more generation calls within one window than
\* the limit allows.
C38_RpmCounterWithinLimit ==
    \A k \in PoolKeys : rpm[k]["image"] <= IMAGE_RPM

\* The membership of t in each of the five sets
Membership(t) ==
    <<t \in Range(pending), t \in Range(retry), t \in processing,
      t \in completed, t \in failed>>

=============================================================================
